---- MODULE Spec2Model ----
(***************************************************************************)
(* Model of the elephant query dispatcher                                  *)
(* (internal/comm/handlers/queryrequesthandler.go).                        *)
(*                                                                         *)
(* Every QueryRequest frame read from a connection is served by its own    *)
(* QueryRequest.Handle call.  A call is modelled as a process whose steps  *)
(* are the places where Handle touches shared state: the qid counter, the  *)
(* queries table and its mutex, the cancel signal of a context, the merged *)
(* entries of the provider tasks, and the connection it writes frames to.  *)
(*                                                                         *)
(* Strings are sequences of code points, so that strings.ToLower,          *)
(* strings.Compare, strings.HasPrefix and strings.Split are computed.      *)
(***************************************************************************)
EXTENDS Integers, Sequences, FiniteSets, TLC

\* ------------------------------------------------------------------ bounds
\* Number of Handle calls made during a run.
MaxQueries == 2
\* Number of accepted connections (cids 1..MaxConns).
MaxConns == 2
\* Number of asynchronous item updates a provider sends for one query.
MaxUpdates == 1
\* Number of goroutines writing to the connection the client reads.
MaxWriters == 2
\* Number of frame writes and UpdateItem calls on that connection.
MaxFrames == 2

\* ------------------------------------------------------- program constants
QueryDone == 255
QueryNoResults == 254
QueryItem == 0
QueryAsyncItem == 1
ActivationFinished == 2

CIDs == 1..MaxConns
HIDs == 1..MaxQueries

\* ------------------------------------------------------------------ strings
Colon == 58
sFiles == <<102, 105, 108, 101, 115>>                        \* "files"
sMenus == <<109, 101, 110, 117, 115>>                        \* "menus"
sMenusColon == sMenus \o <<Colon>>                           \* "menus:"
sWebsearch == <<119, 101, 98, 115, 101, 97, 114, 99, 104>>   \* "websearch"
sNope == <<110, 111, 112, 101>>                              \* "nope"
sMenusNet == sMenusColon \o <<110, 101, 116>>                \* "menus:net"
sNetA == <<110, 101, 116, Colon, 97>>                        \* "net:a"
sA == <<97>>                                                 \* "a"
sG == <<103>>                                                \* "g"
sGSpace == <<103, 32>>                                       \* "g "
sGSpaceA == <<103, 32, 97>>                                  \* "g a"
sUpperB == <<66>>                                            \* "B"
sC == <<99>>                                                 \* "c"
sGoogle == <<71>>                                            \* "G", an engine name
sEmpty == <<>>
sZ == <<122>>                                                \* "z"
sP == <<112>>                                                \* "p"
sU == <<117>>                                                \* "u"
sBang == <<33>>                                              \* "!"
sT == <<116>>                                                \* "t"
sNetT == <<110, 101, 116, Colon, 116>>                       \* "net:t"
sTilde == <<126>>                                            \* "~"
sBad == <<255>>                                              \* a byte that is not UTF-8
sMenusXY == sMenusColon \o <<120, Colon, 121>>               \* "menus:x:y"
sXYColonA == <<120, Colon, 121, Colon, 97>>                  \* "x:y:a"

\* strings.ToLower on ASCII text.
ToLower(s) == [i \in 1..Len(s) |-> IF s[i] \in 65..90 THEN s[i] + 32 ELSE s[i]]

\* strings.Compare: -1, 0 or 1 by lexicographic order of the bytes.
RECURSIVE Compare(_, _)
Compare(a, b) ==
    IF a = <<>> /\ b = <<>> THEN 0
    ELSE IF a = <<>> THEN -1
    ELSE IF b = <<>> THEN 1
    ELSE IF a[1] < b[1] THEN -1
    ELSE IF a[1] > b[1] THEN 1
    ELSE Compare(Tail(a), Tail(b))

\* strings.HasPrefix.
HasPrefix(s, p) == Len(s) >= Len(p) /\ SubSeq(s, 1, Len(p)) = p

\* strings.Split(s, ":"): the pieces of s between the separators.
RECURSIVE SplitFrom(_, _, _)
SplitFrom(s, i, cur) ==
    IF i > Len(s) THEN <<cur>>
    ELSE IF s[i] = Colon THEN <<cur>> \o SplitFrom(s, i + 1, <<>>)
    ELSE SplitFrom(s, i + 1, Append(cur, s[i]))

Split(s) == SplitFrom(s, 1, <<>>)

\* uint32 -> int32 conversion of the Qid field: values above MaxInt32 wrap to
\* negative ones (such values lie beyond the counters any run here reaches).
Int32(x) == IF x > 2147483647 THEN ((x - 2147483647) - 2147483647) - 2 ELSE x


\* A string field that protobuf refuses to marshal: the byte 255 never occurs
\* in valid UTF-8.
ValidUTF8(s) == \A i \in 1..Len(s) : s[i] < 128

\* -------------------------------------------------------------- wire codec
\* A request payload is the encoding of a QueryRequest in protobuf (enc 0) or
\* JSON (enc 1), or bytes that are neither (enc 2).
ZeroReq == [Providers |-> <<>>, Query |-> sEmpty, Maxresults |-> 0, Exactsearch |-> FALSE]

\* Faulty variant of Decode: a format byte other than 0 and 1 is decoded as
\* JSON instead of leaving the request empty.
Decode_UnknownFormatAsJSON(format, data) ==
    IF format = 0 THEN [err |-> data.enc # 0, req |-> IF data.enc = 0 THEN data.req ELSE ZeroReq]
    ELSE [err |-> data.enc # 1, req |-> IF data.enc = 1 THEN data.req ELSE ZeroReq]

\* Handle's decoding switch: proto.Unmarshal for format 0, json.Unmarshal for
\* format 1, and no decoding at all for any other format byte.
Decode(format, data) ==
    IF format = 0 THEN [err |-> data.enc # 0, req |-> IF data.enc = 0 THEN data.req ELSE ZeroReq]
    ELSE IF format = 1 THEN [err |-> data.enc # 1, req |-> IF data.enc = 1 THEN data.req ELSE ZeroReq]
    ELSE [err |-> FALSE, req |-> ZeroReq]

\* The marshalling switch of the emission loop: proto.Marshal fails on a
\* string that is not valid UTF-8, json.Marshal does not fail, and any other
\* format leaves b nil and err nil.
Marshal(format, resp) ==
    IF format = 0
    THEN [err |-> ~(ValidUTF8(resp.Query) /\ ValidUTF8(resp.Item.Text)),
          b |-> <<[enc |-> 0, msg |-> resp]>>]
    ELSE IF format = 1 THEN [err |-> FALSE, b |-> <<[enc |-> 1, msg |-> resp]>>]
    ELSE [err |-> FALSE, b |-> <<>>]

\* ---------------------------------------------------------------- providers
\* providers.Providers: the registry of loaded providers.
Providers == {sFiles, sMenus, sWebsearch}

Item(p, text, score) == [Provider |-> p, Text |-> text, Score |-> score]

\* p.Query of the registered providers: stubs standing for the plugins.
ProviderQuery(p, text, single, exact, format) ==
    IF p = sFiles /\ text = sA
    THEN <<Item(sFiles, sUpperB, 5), Item(sFiles, sA, 5)>>
    ELSE IF p = sFiles /\ text = sGSpaceA
    THEN <<Item(sFiles, sC, 5)>>
    ELSE IF p = sMenus /\ text = sNetA
    THEN <<Item(sMenus, sC, 7)>>
    ELSE IF p = sMenus /\ text = sXYColonA
    THEN <<Item(sMenus, sXYColonA, 7)>>
    ELSE IF p = sFiles /\ text = sT
    THEN <<Item(sFiles, sT, 5)>>
    ELSE IF p = sMenus /\ text = sNetT
    THEN <<Item(sMenus, sT, 5)>>
    ELSE IF p = sFiles /\ text = sZ
    THEN <<Item(sFiles, sZ, 0)>>
    ELSE IF p = sFiles /\ text = sP
    THEN <<Item(sEmpty, sP, 3)>>
    ELSE IF p = sFiles /\ text = sU
    THEN <<Item(sFiles, sBad, 3)>>
    ELSE IF p = sWebsearch
    THEN <<Item(sWebsearch, sGoogle, 1)>>
    ELSE <<>>

\* A provider whose Query panics on some query text.
ProviderPanics(p, text) == p = sFiles /\ text = sBang

\* A provider whose Query never returns on some query text.
ProviderHangs(p, text) == p = sFiles /\ text = sTilde

\* The globals the websearch provider sets up for the handler
\* (WebsearchAlwaysShow, set from the configuration, is a state variable).
MaxGlobalItemsToDisplayWebsearch == 1
WebsearchPrefixes == [k \in {sGSpace} |-> sGoogle]

\* ------------------------------------------------------------------ sorting
\* Faulty variant of sortEntries: the tie-break compares the texts as they
\* are, without lower-casing them.
sortEntries_CaseSensitive(a, b) ==
    IF a.Score > b.Score THEN -1
    ELSE IF b.Score > a.Score THEN 1
    ELSE Compare(a.Text, b.Text)

\* sortEntries: score descending, then lower-cased text ascending.
sortEntries(a, b) ==
    IF a.Score > b.Score THEN -1
    ELSE IF b.Score > a.Score THEN 1
    ELSE Compare(ToLower(a.Text), ToLower(b.Text))

\* slices.SortFunc on up to 12 elements is an insertion sort: each element is
\* moved left while it compares less than its left neighbour.
RECURSIVE InsertLeft(_, _)
InsertLeft(s, x) ==
    IF s = <<>> THEN <<x>>
    ELSE IF sortEntries(x, s[Len(s)]) < 0
    THEN Append(InsertLeft(SubSeq(s, 1, Len(s) - 1), x), s[Len(s)])
    ELSE Append(s, x)

RECURSIVE SortFunc(_)
SortFunc(s) ==
    IF s = <<>> THEN <<>>
    ELSE InsertLeft(SortFunc(SubSeq(s, 1, Len(s) - 1)), s[Len(s)])

\* ----------------------------------------------------------------- requests
Req(ps, q, max) == [Providers |-> ps, Query |-> q, Maxresults |-> max, Exactsearch |-> FALSE]

\* The request frames a client sends: format byte and payload.
Requests ==
    { [format |-> 1, data |-> [enc |-> 1, req |-> Req(<<sFiles, sMenusNet>>, sA, 10)]],
      [format |-> 0, data |-> [enc |-> 0, req |-> Req(<<sNope>>, sA, 10)]],
      [format |-> 0, data |-> [enc |-> 2, req |-> ZeroReq]],
      [format |-> 0, data |-> [enc |-> 0, req |-> Req(<<sFiles, sWebsearch>>, sA, 3)]],
      [format |-> 1, data |-> [enc |-> 1, req |-> Req(<<sFiles>>, sA, -1)]] }


\* -------------------------------------------------------------------- state
VARIABLES
    qid,         \* the atomic.Uint32 query counter
    queries,     \* cid -> the cancel handle stored for it (the call that owns it), 0 when absent
    queryMutex,  \* 0 when free, else the Handle call holding it
    call,        \* the Handle calls: position and local variables of each
    conn,        \* cid -> the frames written to the connection, oldest first
    open,        \* cid -> the client end of the connection is still open
    started,     \* number of Handle calls started so far
    crashed,     \* the daemon died of an unrecovered panic
    WebsearchAlwaysShow  \* the global set from config.AlwaysShowDefault at setup

\* The byte level of one connection and the command-line client reading it.
VARIABLES
    stream,      \* the bytes the server's Write calls have put on the socket, in order
    rd,          \* how many of them the client has consumed
    fdmu,        \* the write lock of the connection's descriptor: 0 or the writer holding it
    wr,          \* the goroutines writing to the connection: position and buffer of each
    sent,        \* the frames whose Write has begun, in the order of the Write calls
    begun,       \* number of writes and UpdateItem calls begun so far
    closed,      \* "no", or how the server end went away: "eof" or "reset"
    cl           \* the client: position, flags, the frames it read, what it printed, exit code

\* The providers followed on their own.
VARIABLES
    bt,          \* a bluetooth Activate call: position, flags, and the state of the device
    vsc,         \* a vscodeprojects Query call: its inputs and its result
    mw           \* the watch loop of a menu: event channel, goroutine, timer, flag

\* The git helpers of the providers.
VARIABLES
    pusher,      \* the goroutine behind GitPush: the work map, its timer and flag
    setups       \* gitMu, setupRepos, the cache folders and the SetupGit calls

gitVars == <<pusher, setups>>
dispatchVars == <<qid, queries, queryMutex, call, conn, open, started, crashed, WebsearchAlwaysShow>>
wireVars == <<stream, rd, fdmu, wr, sent, begun, closed, cl>>
exceptDispatch == <<wireVars, bt, vsc, mw, gitVars>>
exceptWire == <<dispatchVars, bt, vsc, mw, gitVars>>
exceptBluetooth == <<dispatchVars, wireVars, vsc, mw, gitVars>>
exceptVscode == <<dispatchVars, wireVars, bt, mw, gitVars>>
exceptMenu == <<dispatchVars, wireVars, bt, vsc, gitVars>>
exceptGit == <<dispatchVars, wireVars, bt, vsc, mw>>
vars == <<dispatchVars, wireVars, bt, vsc, mw, gitVars>>

\* ------------------------------------------------------------ byte level
Writers == 1..MaxWriters

\* Faulty variant of PutUint32: the length is written little-endian.
PutUint32_LittleEndian(n) == <<n % 256, (n \div 256) % 256, (n \div 65536) % 256, (n \div 16777216) % 256>>

\* binary.BigEndian.PutUint32 and binary.BigEndian.Uint32.
PutUint32(n) == <<(n \div 16777216) % 256, (n \div 65536) % 256, (n \div 256) % 256, n % 256>>
Uint32(b) == ((b[1] * 16777216 + b[2] * 65536) + b[3] * 256) + b[4]

\* The buffer a frame is built in: opcode, length of the payload, payload.
FrameBytes(op, payload) == <<op>> \o PutUint32(Len(payload)) \o payload

\* The bytes of a marshalled envelope: a JSON object is written between
\* braces, a protobuf message starts with the tag of its first field; only
\* the text of the item is carried along.
Bytes(b) ==
    IF b = <<>> THEN <<>>
    ELSE IF b[1].enc = 1 THEN <<123>> \o b[1].msg.Item.Text \o <<125>>
    ELSE <<10>> \o b[1].msg.Item.Text

\* json.Unmarshal of a payload into a QueryResponse succeeds on a JSON object.
JSONObject(payload) == Len(payload) >= 2 /\ payload[1] = 123 /\ payload[Len(payload)] = 125

\* The opcodes the client's read loop knows as status frames.
done == QueryDone
empty == QueryNoResults

\* The exit status of a Go program that ends by a panic, and of one whose
\* main returns.
PanicExit == 2
ReturnExit == 0
Running == -1

\* A goroutine that is not writing.
WriterIdle ==
    [pc |-> "idle", kind |-> "none", buf |-> <<>>, frame |-> [op |-> 0, payload |-> <<>>],
     format |-> 0, first |-> TRUE]

\* client.Query before it dials.
ClientStart(async) ==
    [pc |-> "dial", async |-> async, code |-> 0, length |-> 0, got |-> <<>>, printed |-> <<>>,
     exit |-> Running, cause |-> "none"]

WireStart(async) ==
    /\ stream = <<>>
    /\ rd = 0
    /\ fdmu = 0
    /\ wr = [w \in Writers |-> WriterIdle]
    /\ sent = <<>>
    /\ begun = 0
    /\ closed = "no"
    /\ cl = ClientStart(async)

\* ---------------------------------------------------------- the providers
\* bluetooth.Activate as it is entered, with the state of the device.
BtStart(action, paired, connected) ==
    [pc |-> "switch", action |-> action, added |-> FALSE, removed |-> FALSE, connect |-> FALSE,
     disconnect |-> FALSE, paired |-> paired, connected |-> connected,
     devices |-> <<>>, entries |-> <<>>]

\* vscodeprojects.Query as it is entered, with the package's entries loaded
\* from a state database that has not changed since.
VscStart(query, entries, minScore, maxEntries) ==
    [pc |-> "query", query |-> query, entries |-> entries, MinScore |-> minScore,
     MaxEntries |-> maxEntries, res |-> <<>>, db |-> entries, modified |-> FALSE,
     expired |-> FALSE, picked |-> 0, shown |-> <<>>, opened |-> <<>>]

\* Menu.watch after its set-up: no event, the goroutine at its select, the
\* timer of 500 ms started, do false.
MwStart ==
    [events |-> <<>>, gpc |-> "select", timer |-> "armed", do |-> FALSE, rebuilds |-> 0,
     changes |-> 0, dirty |-> FALSE, menu |-> [Name |-> <<>>, SubMenu |-> <<>>],
     entry |-> [Text |-> <<>>, Value |-> <<>>, Subtext |-> <<>>, SubMenu |-> <<>>],
     toml |-> <<>>, lua |-> <<>>]


\* The goroutine started by init() of the git helpers: an empty work map, the
\* timer of 5 s started, do false; no GitPush call yet, nothing pushed, the
\* git operations of every provider working.
PusherStart ==
    [work |-> {}, timer |-> "armed", do |-> FALSE, calls |-> 0, submitted |-> {},
     pushed |-> <<>>, flushes |-> 0, down |-> {}, failed |-> FALSE]

\* The number of SetupGit calls followed.
MaxSetups == 2

\* A SetupGit call before it is made: x, pull, r and w as declared at the top
\* of the function, nothing set on the provider configuration yet.
IdleSetup ==
    [pc |-> "idle", url |-> <<>>, folder |-> <<>>, x |-> 0, pull |-> FALSE, r |-> <<>>,
     w |-> <<>>, made |-> {}, cfg |-> <<>>]

\* The git helpers at start-up: gitMu free, setupRepos empty, no cache
\* folder, no SetupGit call.
SetupsStart ==
    [gitMu |-> 0, setupRepos |-> {}, folders |-> {},
     callers |-> [p \in 1..MaxSetups |-> IdleSetup], redone |-> FALSE]

GitStart == pusher = PusherStart /\ setups = SetupsStart

\* The providers at rest, in the specifications that do not follow them.
ProvidersStart ==
    /\ bt = BtStart("find", FALSE, FALSE)
    /\ vsc = VscStart(<<>>, <<>>, 20, 100)
    /\ mw = MwStart
    /\ GitStart

\* A Handle call before it is started.
IdleCall ==
    [pc |-> "idle", cid |-> 0, format |-> 0, data |-> [enc |-> 2, req |-> ZeroReq],
     added |-> 0, qqid |-> 0, req |-> ZeroReq, wsprefix |-> sEmpty, ctxDone |-> FALSE, val |-> 0,
     tasks |-> <<>>, pending |-> {}, got |-> {}, seen |-> {}, panicked |-> {}, entries |-> <<>>, sorted |-> <<>>,
     hideWebsearch |-> FALSE, i |-> 0, b |-> <<>>, updates |-> 0]

\* The dispatcher and the connection at rest, in the specifications that
\* follow one provider.
DispatchStart ==
    /\ qid = 0
    /\ queries = [c \in CIDs |-> 0]
    /\ queryMutex = 0
    /\ call = [h \in HIDs |-> IdleCall]
    /\ conn = [c \in CIDs |-> <<>>]
    /\ open = [c \in CIDs |-> TRUE]
    /\ started = 0
    /\ crashed = FALSE
    /\ WebsearchAlwaysShow = FALSE
    /\ WireStart(FALSE)

Init ==
    /\ qid = 0
    /\ queries = [c \in CIDs |-> 0]
    /\ queryMutex = 0
    /\ call = [h \in HIDs |-> IdleCall]
    /\ conn = [c \in CIDs |-> <<>>]
    /\ open = [c \in CIDs |-> TRUE]
    /\ started = 0
    /\ crashed = FALSE
    /\ WebsearchAlwaysShow = FALSE
    /\ WireStart(FALSE)
    /\ ProvidersStart

\* ------------------------------------------------------------- environment
\* The connection loop reads one QueryRequest frame from connection c and
\* starts a Handle call for it, concurrent with the calls already running.
Receive(c, m) ==
    /\ ~crashed
    /\ open[c]
    /\ started < MaxQueries
    /\ started' = started + 1
    /\ call' = [call EXCEPT ![started + 1] =
                  [IdleCall EXCEPT !.pc = "add", !.cid = c, !.format = m.format, !.data = m.data]]
    /\ UNCHANGED <<exceptDispatch, WebsearchAlwaysShow, qid, queries, queryMutex, conn, open, crashed>>

\* The client closes its end of connection c: later writes to it fail.
Disconnect(c) ==
    /\ ~crashed
    /\ open[c]
    /\ open' = [open EXCEPT ![c] = FALSE]
    /\ UNCHANGED <<exceptDispatch, WebsearchAlwaysShow, qid, queries, queryMutex, call, conn, started, crashed>>

\* conn.Write of one frame: it reaches the client unless the connection is closed.
ConnWrite(c, frame) == IF open[c] THEN [conn EXCEPT ![c] = Append(@, frame)] ELSE conn

\* writeStatus(status, conn): a status frame has a zero-length payload.
writeStatus(h, status) == ConnWrite(call[h].cid, [op |-> status, by |-> h, payload |-> <<>>])

\* ------------------------------------------------------------------ Handle
\* qid.Add(1); the counter stays far below its wrap at 2^32 in every run here.
\* added keeps the value Add returns, which Handle does not use.
QidAdd(h) ==
    /\ ~crashed
    /\ call[h].pc = "add"
    /\ qid' = qid + 1
    /\ call' = [call EXCEPT ![h].added = qid + 1, ![h].pc = "load"]
    /\ UNCHANGED <<exceptDispatch, WebsearchAlwaysShow, queries, queryMutex, conn, open, started, crashed>>

\* Faulty variant of WsPrefixes: the registered prefixes are never matched
\* against the query, so the hint stays empty.
WsPrefixes_NeverMatches(req) == {sEmpty}

\* The prefix hint: the engine name of a registered prefix the query starts
\* with; the map is ranged over in no fixed order and the last match stays.
WsPrefixes(req) ==
    IF \E n \in 1..Len(req.Providers) : req.Providers[n] = sWebsearch
    THEN IF \E k \in DOMAIN WebsearchPrefixes : HasPrefix(req.Query, k)
         THEN {WebsearchPrefixes[k] : k \in {x \in DOMAIN WebsearchPrefixes : HasPrefix(req.Query, x)}}
         ELSE {sEmpty}
    ELSE {sEmpty}

\* qqid := qid.Load(), then the request is decoded; a decoding error returns.
QidLoad(h) ==
    /\ ~crashed
    /\ call[h].pc = "load"
    /\ LET d == Decode(call[h].format, call[h].data) IN
         IF d.err
         THEN call' = [call EXCEPT ![h].qqid = qid, ![h].pc = "decodeerr"]
         ELSE \E w \in WsPrefixes(d.req) :
                call' = [call EXCEPT ![h].qqid = qid, ![h].req = d.req,
                                     ![h].wsprefix = w, ![h].pc = "lock"]
    /\ UNCHANGED <<exceptDispatch, WebsearchAlwaysShow, qid, queries, queryMutex, conn, open, started, crashed>>

\* Faulty variant of Lock: the cancel-and-install swap is entered without
\* waiting for the mutex.
Lock_NoMutex(h) ==
    /\ ~crashed
    /\ call[h].pc = "lock"
    /\ queryMutex' = h
    /\ call' = [call EXCEPT ![h].pc = "cancel"]
    /\ UNCHANGED <<exceptDispatch, WebsearchAlwaysShow, qid, queries, conn, open, started, crashed>>

\* queryMutex.Lock(), followed by context.WithCancel
Lock(h) ==
    /\ ~crashed
    /\ call[h].pc = "lock"
    /\ queryMutex = 0
    /\ queryMutex' = h
    /\ call' = [call EXCEPT ![h].pc = "cancel"]
    /\ UNCHANGED <<exceptDispatch, WebsearchAlwaysShow, qid, queries, conn, open, started, crashed>>

\* val, ok := queries[cid]; val() when a handle is stored
CancelPrev(h) ==
    /\ ~crashed
    /\ call[h].pc = "cancel"
    /\ LET v == queries[call[h].cid] IN
         call' = IF v # 0
                 THEN [call EXCEPT ![h].val = v, ![h].pc = "install", ![v].ctxDone = TRUE]
                 ELSE [call EXCEPT ![h].val = v, ![h].pc = "install"]
    /\ UNCHANGED <<exceptDispatch, WebsearchAlwaysShow, qid, queries, queryMutex, conn, open, started, crashed>>

\* queries[cid] = cancel, in either branch
Install(h) ==
    /\ ~crashed
    /\ call[h].pc = "install"
    /\ queries' = [queries EXCEPT ![call[h].cid] = h]
    /\ call' = [call EXCEPT ![h].pc = "unlock"]
    /\ UNCHANGED <<exceptDispatch, WebsearchAlwaysShow, qid, queryMutex, conn, open, started, crashed>>

\* queryMutex.Unlock()
Unlock(h) ==
    /\ ~crashed
    /\ call[h].pc = "unlock"
    /\ queryMutex' = 0
    /\ call' = [call EXCEPT ![h].pc = "launch"]
    /\ UNCHANGED <<exceptDispatch, WebsearchAlwaysShow, qid, queries, conn, open, started, crashed>>

\* The routing transform of the fan-out loop: for "menus:<menu>" the provider
\* is split[0] and the query handed to it is split[1] + ":" + query.
TaskOf(v, query) ==
    IF HasPrefix(v, sMenusColon)
    THEN [v |-> Split(v)[1], text |-> Split(v)[2] \o <<Colon>> \o query]
    ELSE [v |-> v, text |-> query]

\* wg.Add(len(req.Providers)) and the fan-out loop, which starts one
\* goroutine per provider name.
Launch(h) ==
    /\ ~crashed
    /\ call[h].pc = "launch"
    /\ LET req == call[h].req IN
         call' = [call EXCEPT
                    ![h].tasks = [n \in 1..Len(req.Providers) |-> TaskOf(req.Providers[n], req.Query)],
                    ![h].pending = 1..Len(req.Providers),
                    ![h].pc = "wait"]
    /\ UNCHANGED <<exceptDispatch, WebsearchAlwaysShow, qid, queries, queryMutex, conn, open, started, crashed>>

\* Faulty variant of Task: a task whose provider name is not registered
\* throws away the entries merged so far.
Task_UnknownResets(h, n) ==
    /\ ~crashed
    /\ call[h].pc = "wait"
    /\ n \in call[h].pending \ call[h].got
    /\ ~(call[h].tasks[n].v \in Providers
          /\ ProviderHangs(call[h].tasks[n].v, call[h].tasks[n].text))
    /\ LET t == call[h].tasks[n]
           req == call[h].req
           res == IF t.v \in Providers
                  THEN ProviderQuery(t.v, t.text, Len(req.Providers) = 1,
                                     req.Exactsearch, call[h].format)
                  ELSE <<>>
       IN IF t.v \in Providers /\ ProviderPanics(t.v, t.text)
          THEN /\ call' = [call EXCEPT ![h].panicked = @ \cup {n}, ![h].pending = @ \ {n}]
               /\ crashed' = TRUE
          ELSE /\ call' = IF t.v \in Providers
                           THEN [call EXCEPT ![h].got = @ \cup {n}]
                           ELSE [call EXCEPT ![h].entries = <<>>, ![h].pending = @ \ {n}]
               /\ crashed' = crashed
    /\ UNCHANGED <<exceptDispatch, WebsearchAlwaysShow, qid, queries, queryMutex, conn, open, started>>

\* One provider task: a registered provider is queried and its items are
\* appended to entries under mut; an unknown name only signals the WaitGroup.
\* The goroutine defers wg.Done() and nothing else: a panic inside p.Query
\* is not recovered and ends the process, and a p.Query that does not return
\* never reaches wg.Done().
Task(h, n) ==
    /\ ~crashed
    /\ call[h].pc = "wait"
    /\ n \in call[h].pending \ call[h].got
    /\ ~(call[h].tasks[n].v \in Providers
          /\ ProviderHangs(call[h].tasks[n].v, call[h].tasks[n].text))
    /\ LET t == call[h].tasks[n]
           req == call[h].req
           res == IF t.v \in Providers
                  THEN ProviderQuery(t.v, t.text, Len(req.Providers) = 1,
                                     req.Exactsearch, call[h].format)
                  ELSE <<>>
       IN IF t.v \in Providers /\ ProviderPanics(t.v, t.text)
          THEN /\ call' = [call EXCEPT ![h].panicked = @ \cup {n}, ![h].pending = @ \ {n}]
               /\ crashed' = TRUE
          ELSE /\ call' = IF t.v \in Providers
                           THEN [call EXCEPT ![h].got = @ \cup {n}]
                           ELSE [call EXCEPT ![h].pending = @ \ {n}]
               /\ crashed' = crashed
    /\ UNCHANGED <<exceptDispatch, WebsearchAlwaysShow, qid, queries, queryMutex, conn, open, started>>

\* The items task n of call h got from its provider.
Res(h, n) ==
    ProviderQuery(call[h].tasks[n].v, call[h].tasks[n].text, Len(call[h].req.Providers) = 1,
                  call[h].req.Exactsearch, call[h].format)

\* Faulty variant of MutLock: the tasks do not wait for each other.
MutLock_NoLock(h, n) ==
    /\ ~crashed
    /\ n \in call[h].got
    /\ \A p \in call[h].seen : p[1] # n
    /\ call' = [call EXCEPT ![h].seen = @ \cup {<<n, call[h].entries>>}]
    /\ UNCHANGED <<exceptDispatch, WebsearchAlwaysShow, qid, queries, queryMutex, conn, open, started, crashed>>

\* mut.Lock() in task n, once no other task of the call holds mut, and the
\* read of entries that append starts with.
MutLock(h, n) ==
    /\ ~crashed
    /\ n \in call[h].got
    /\ call[h].seen = {}
    /\ call' = [call EXCEPT ![h].seen = @ \cup {<<n, call[h].entries>>}]
    /\ UNCHANGED <<exceptDispatch, WebsearchAlwaysShow, qid, queries, queryMutex, conn, open, started, crashed>>

\* entries = append(entries, res...) stores the slice read extended by the
\* items of the task; mut.Unlock() and the deferred wg.Done() follow.
AppendUnlock(h, n) ==
    /\ ~crashed
    /\ \E p \in call[h].seen :
          /\ p[1] = n
          /\ call' = [call EXCEPT ![h].entries = p[2] \o Res(h, n),
                                   ![h].seen = @ \ {p},
                                   ![h].got = @ \ {n},
                                   ![h].pending = @ \ {n}]
    /\ UNCHANGED <<exceptDispatch, WebsearchAlwaysShow, qid, queries, queryMutex, conn, open, started, crashed>>

\* Handle returns from the return statement named by ret ("cancelled" at
\* the barrier or in the loop, "writeerr" after a failed write, "end" after
\* QueryDone): the deferred cancel() runs.
Return(h, ret) == [call EXCEPT ![h].pc = ret, ![h].ctxDone = TRUE]

\* The positions of a call that has returned.
Returned == {"decodeerr", "cancelled", "writeerr", "end"}

\* Where the emission loop goes after the item at index i.
AfterItem(h, i) == IF i + 1 > Len(call[h].entries) THEN "done" ELSE "loop"

\* Faulty variant of HideWebsearch: the always-show setting is not consulted.
HideWebsearch_IgnoresAlwaysShow(req, entries) ==
    Len(req.Providers) > 1 /\ Len(entries) > MaxGlobalItemsToDisplayWebsearch

\* hideWebsearch as computed after the cap.
HideWebsearch(req, entries) ==
    (Len(req.Providers) > 1 /\ Len(entries) > MaxGlobalItemsToDisplayWebsearch)
        /\ ~WebsearchAlwaysShow

\* Faulty variant of Cap: the slice keeps one entry too many.
Cap_OneTooMany(entries, max) == IF Len(entries) > max THEN SubSeq(entries, 1, max + 1) ELSE entries

\* The cap: entries[:req.Maxresults] when there are more entries than that.
Cap(entries, max) == IF Len(entries) > max THEN SubSeq(entries, 1, max) ELSE entries

\* wg.Wait(), the cancellation check behind it, the sort, the empty test and
\* the cap; entries[:Maxresults] panics for a negative Maxresults.
Barrier(h) ==
    /\ ~crashed
    /\ call[h].pc = "wait"
    /\ call[h].pending = {}
    /\ LET req == call[h].req
           sorted == SortFunc(call[h].entries)
           capped == Cap(sorted, req.Maxresults)
       IN IF call[h].ctxDone
          THEN call' = Return(h, "cancelled") /\ crashed' = crashed
          ELSE IF Len(sorted) = 0
          THEN call' = [call EXCEPT ![h].entries = sorted, ![h].sorted = sorted,
                                    ![h].pc = "noresults"]
               /\ crashed' = crashed
          ELSE IF Len(sorted) > req.Maxresults /\ req.Maxresults < 0
          THEN call' = [call EXCEPT ![h].entries = sorted, ![h].sorted = sorted,
                                    ![h].pc = "panic"]
               /\ crashed' = TRUE
          ELSE call' = [call EXCEPT ![h].entries = capped,
                                    ![h].sorted = sorted,
                                    ![h].hideWebsearch = HideWebsearch(req, capped),
                                    ![h].i = 1,
                                    ![h].pc = IF Len(capped) = 0 THEN "done" ELSE "loop"]
               /\ crashed' = crashed
    /\ UNCHANGED <<exceptDispatch, WebsearchAlwaysShow, qid, queries, queryMutex, conn, open, started>>

\* Faulty variant of WriteNoResults: the empty path returns after
\* QueryNoResults and forgets QueryDone.
WriteNoResults_ForgetDone(h) ==
    /\ ~crashed
    /\ call[h].pc = "noresults"
    /\ conn' = writeStatus(h, QueryNoResults)
    /\ call' = Return(h, "end")
    /\ UNCHANGED <<exceptDispatch, WebsearchAlwaysShow, qid, queries, queryMutex, open, started, crashed>>

\* Faulty variant of WriteNoResults: the empty path writes its two status
\* frames in the wrong order, QueryDone first.
WriteNoResults_DoneFirst(h) ==
    /\ ~crashed
    /\ call[h].pc = "noresults"
    /\ conn' = IF open[call[h].cid]
               THEN [conn EXCEPT ![call[h].cid] =
                       @ \o << [op |-> QueryDone, by |-> h, payload |-> <<>>],
                               [op |-> QueryNoResults, by |-> h, payload |-> <<>>] >>]
               ELSE conn
    /\ call' = Return(h, "end")
    /\ UNCHANGED <<exceptDispatch, WebsearchAlwaysShow, qid, queries, queryMutex, open, started, crashed>>

\* writeStatus(QueryNoResults, conn) of the empty path
WriteNoResults(h) ==
    /\ ~crashed
    /\ call[h].pc = "noresults"
    /\ conn' = writeStatus(h, QueryNoResults)
    /\ call' = [call EXCEPT ![h].pc = "done"]
    /\ UNCHANGED <<exceptDispatch, WebsearchAlwaysShow, qid, queries, queryMutex, open, started, crashed>>

\* Faulty variant of Response: the envelope reads the counter again instead
\* of using the qqid taken when Handle started.
Response_CurrentQid(h, v) == [Qid |-> Int32(qid), Query |-> call[h].req.Query, Item |-> v]

\* The envelope of one QueryItem frame.
Response(h, v) == [Qid |-> Int32(call[h].qqid), Query |-> call[h].req.Query, Item |-> v]

\* One turn of the emission loop up to the write: the cancellation check, the
\* websearch filter and the marshalling.
Loop(h) ==
    /\ ~crashed
    /\ call[h].pc = "loop"
    /\ LET i == call[h].i
           v == call[h].entries[i]
           m == Marshal(call[h].format, Response(h, v))
       IN IF call[h].ctxDone
          THEN call' = Return(h, "cancelled")
          ELSE IF v.Provider = sWebsearch /\ call[h].hideWebsearch /\ v.Text # call[h].wsprefix
          THEN call' = [call EXCEPT ![h].i = i + 1, ![h].pc = AfterItem(h, i)]
          ELSE IF m.err
          THEN call' = [call EXCEPT ![h].i = i + 1, ![h].pc = AfterItem(h, i)]
          ELSE call' = [call EXCEPT ![h].b = m.b, ![h].pc = "write"]
    /\ UNCHANGED <<exceptDispatch, WebsearchAlwaysShow, qid, queries, queryMutex, conn, open, started, crashed>>

\* Faulty variant of WriteItem: after a failed write the loop goes on to the
\* next item instead of returning.
WriteItem_ContinueOnError(h) ==
    /\ ~crashed
    /\ call[h].pc = "write"
    /\ conn' = ConnWrite(call[h].cid, [op |-> QueryItem, by |-> h, payload |-> call[h].b])
    /\ call' = [call EXCEPT ![h].i = @ + 1, ![h].b = <<>>, ![h].pc = AfterItem(h, call[h].i)]
    /\ UNCHANGED <<exceptDispatch, WebsearchAlwaysShow, qid, queries, queryMutex, open, started, crashed>>

\* conn.Write of the QueryItem frame; a write error returns.
WriteItem(h) ==
    /\ ~crashed
    /\ call[h].pc = "write"
    /\ conn' = ConnWrite(call[h].cid, [op |-> QueryItem, by |-> h, payload |-> call[h].b])
    /\ call' = IF open[call[h].cid]
               THEN [call EXCEPT ![h].i = @ + 1, ![h].b = <<>>, ![h].pc = AfterItem(h, call[h].i)]
               ELSE Return(h, "writeerr")
    /\ UNCHANGED <<exceptDispatch, WebsearchAlwaysShow, qid, queries, queryMutex, open, started, crashed>>

\* writeStatus(QueryDone, conn), the last statement of both paths
WriteDone(h) ==
    /\ ~crashed
    /\ call[h].pc = "done"
    /\ conn' = writeStatus(h, QueryDone)
    /\ call' = Return(h, "end")
    /\ UNCHANGED <<exceptDispatch, WebsearchAlwaysShow, qid, queries, queryMutex, open, started, crashed>>

\* --------------------------------------------------------------------- spec
Next ==
    \/ \E c \in CIDs, m \in Requests : Receive(c, m)
    \/ \E c \in CIDs : Disconnect(c)
    \/ \E h \in HIDs : QidAdd(h)
    \/ \E h \in HIDs : QidLoad(h)
    \/ \E h \in HIDs : Lock(h)
    \/ \E h \in HIDs : CancelPrev(h)
    \/ \E h \in HIDs : Install(h)
    \/ \E h \in HIDs : Unlock(h)
    \/ \E h \in HIDs : Launch(h)
    \/ \E h \in HIDs, n \in 1..2 : Task(h, n)
    \/ \E h \in HIDs, n \in 1..2 : MutLock(h, n)
    \/ \E h \in HIDs, n \in 1..2 : AppendUnlock(h, n)
    \/ \E h \in HIDs : Barrier(h)
    \/ \E h \in HIDs : WriteNoResults(h)
    \/ \E h \in HIDs : Loop(h)
    \/ \E h \in HIDs : WriteItem(h)
    \/ \E h \in HIDs : WriteDone(h)

Spec == Init /\ [][Next]_vars

\* ------------------------------------------------- one query, many requests
\* The second specification follows a single Handle call (and the async
\* updates of its providers) over a wider set of requests and over both
\* settings of WebsearchAlwaysShow.
Enc(format, req) == [format |-> format, data |-> [enc |-> format, req |-> req]]

QueryRequests ==
    Requests \cup
    { Enc(1, Req(<<sMenusXY>>, sA, 10)),
      Enc(0, Req(<<sNope, sFiles>>, sA, 10)),
      Enc(1, Req(<<sFiles, sMenusNet>>, sA, 2)),
      Enc(1, Req(<<sFiles>>, sA, 0)),
      Enc(0, Req(<<sFiles, sWebsearch>>, sZ, 1)),
      Enc(0, Req(<<sFiles, sWebsearch>>, sGSpaceA, 10)),
      Enc(0, Req(<<sWebsearch>>, sA, 10)),
      [format |-> 2, data |-> [enc |-> 1, req |-> Req(<<sFiles>>, sA, 10)]],
      Enc(1, Req(<<sFiles>>, sP, 10)),
      Enc(0, Req(<<sFiles>>, sU, 10)),
      Enc(0, Req(<<sWebsearch, sFiles>>, sBang, 10)),
      Enc(1, Req(<<sWebsearch, sFiles>>, sTilde, 10)),
      Enc(1, Req(<<sFiles, sMenusNet>>, sT, 10)) }

QueryInit ==
    /\ qid = 0
    /\ queries = [c \in CIDs |-> 0]
    /\ queryMutex = 0
    /\ call = [h \in HIDs |-> IdleCall]
    /\ conn = [c \in CIDs |-> <<>>]
    /\ open = [c \in CIDs |-> TRUE]
    /\ started = 0
    /\ crashed = FALSE
    /\ WebsearchAlwaysShow \in BOOLEAN
    /\ WireStart(FALSE)
    /\ ProvidersStart

\* The connection loop starts the Handle call of the run.
ReceiveQuery(c, m) == started = 0 /\ Receive(c, m)

\* UpdateItem(format, query, conn, item), called by a provider of call h that
\* was queried (task n has run) with the format, query and connection its
\* Query call was given: the envelope has no qid, a marshalling error or a
\* write error returns.
UpdateItem(h, n) ==
    /\ ~crashed
    /\ call[h].pc \notin {"idle", "add", "load", "decodeerr", "lock", "cancel", "install",
                           "unlock", "launch"}
    /\ n \in DOMAIN call[h].tasks
    /\ n \notin call[h].pending
    /\ call[h].tasks[n].v \in Providers
    /\ call[h].updates < MaxUpdates
    /\ LET t == call[h].tasks[n]
           m == Marshal(call[h].format, [Query |-> t.text, Item |-> Item(t.v, t.text, 0)])
       IN conn' = IF m.err THEN conn
                  ELSE ConnWrite(call[h].cid, [op |-> QueryAsyncItem, by |-> h, payload |-> m.b])
    /\ call' = [call EXCEPT ![h].updates = @ + 1]
    /\ UNCHANGED <<exceptDispatch, WebsearchAlwaysShow, qid, queries, queryMutex, open, started, crashed>>

QueryNext ==
    \/ \E c \in CIDs, m \in QueryRequests : ReceiveQuery(c, m)
    \/ \E c \in CIDs : Disconnect(c)
    \/ \E h \in HIDs : QidAdd(h)
    \/ \E h \in HIDs : QidLoad(h)
    \/ \E h \in HIDs : Lock(h)
    \/ \E h \in HIDs : CancelPrev(h)
    \/ \E h \in HIDs : Install(h)
    \/ \E h \in HIDs : Unlock(h)
    \/ \E h \in HIDs : Launch(h)
    \/ \E h \in HIDs, n \in 1..2 : Task(h, n)
    \/ \E h \in HIDs, n \in 1..2 : MutLock(h, n)
    \/ \E h \in HIDs, n \in 1..2 : AppendUnlock(h, n)
    \/ \E h \in HIDs, n \in 1..2 : UpdateItem(h, n)
    \/ \E h \in HIDs : Barrier(h)
    \/ \E h \in HIDs : WriteNoResults(h)
    \/ \E h \in HIDs : Loop(h)
    \/ \E h \in HIDs : WriteItem(h)
    \/ \E h \in HIDs : WriteDone(h)

QuerySpec == QueryInit /\ [][QueryNext]_vars

\* The steps of Handle call h and of its provider tasks.
HandleStep(h) ==
    \/ QidAdd(h) \/ QidLoad(h) \/ Lock(h) \/ CancelPrev(h) \/ Install(h) \/ Unlock(h)
    \/ Launch(h) \/ (\E n \in 1..2 : Task(h, n) \/ MutLock(h, n) \/ AppendUnlock(h, n))
    \/ Barrier(h) \/ WriteNoResults(h)
    \/ Loop(h) \/ WriteItem(h) \/ WriteDone(h)

\* The same program under a fair scheduler: a goroutine that can run does
\* run; the client is under no obligation.
QueryLiveSpec == QueryInit /\ [][QueryNext]_vars /\ \A h \in HIDs : WF_vars(HandleStep(h))


\* ------------------------------------------- one connection, byte by byte
\* The third specification follows the bytes of one connection: goroutines
\* of the daemon write frames to it with conn.Write, and the command-line
\* client (client.Query) reads them.

\* The frames Handle and the other handlers write for a JSON client: an item,
\* the two query status frames, and the frame that ends an activation.
HandlerFrames ==
    { [op |-> QueryItem,
       payload |-> Bytes(Marshal(1, [Qid |-> 1, Query |-> sA, Item |-> Item(sFiles, sA, 5)]).b)],
      [op |-> QueryNoResults, payload |-> <<>>],
      [op |-> QueryDone, payload |-> <<>>],
      [op |-> ActivationFinished, payload |-> <<>>] }

\* The format bytes and items UpdateItem is called with.
UpdateFormats == {0, 1, 2}
UpdateItems == {Item(sFiles, sA, 0), Item(sFiles, sBad, 0)}

\* A goroutine of the daemon has built the buffer of a frame (Handle's
\* emission loop, writeStatus) and calls conn.Write with it.
HandlerWrite(w, f) ==
    /\ closed = "no"
    /\ cl.pc \notin {"dial", "send"}
    /\ wr[w].pc = "idle"
    /\ begun < MaxFrames
    /\ begun' = begun + 1
    /\ wr' = [wr EXCEPT ![w] = [pc |-> "wait", kind |-> "handler", buf |-> FrameBytes(f.op, f.payload),
                                frame |-> f, format |-> 1, first |-> TRUE]]
    /\ UNCHANGED <<exceptWire, stream, rd, fdmu, sent, closed, cl>>

\* UpdateItem(format, query, conn, item) up to its conn.Write: the envelope is
\* marshalled by the switch on format, a marshalling error returns, and the
\* buffer is opcode QueryAsyncItem, the length of b and b.
UpdateItemCall(w, format, item) ==
    /\ closed = "no"
    /\ cl.pc \notin {"dial", "send"}
    /\ wr[w].pc = "idle"
    /\ begun < MaxFrames
    /\ begun' = begun + 1
    /\ LET m == Marshal(format, [Query |-> sA, Item |-> item])
           b == Bytes(m.b)
       IN wr' = [wr EXCEPT ![w] =
                   IF m.err
                   THEN [WriterIdle EXCEPT !.kind = "update", !.format = format]
                   ELSE [pc |-> "wait", kind |-> "update", buf |-> FrameBytes(QueryAsyncItem, b),
                         frame |-> [op |-> QueryAsyncItem, payload |-> b], format |-> format,
                         first |-> TRUE]]
    /\ UNCHANGED <<exceptWire, stream, rd, fdmu, sent, closed, cl>>

\* Faulty variant of FdLock: the Write call does not wait for the write lock.
FdLock_NoLock(w) ==
    /\ wr[w].pc = "wait"
    /\ fdmu' = w
    /\ wr' = [wr EXCEPT ![w].pc = "write"]
    /\ UNCHANGED <<exceptWire, stream, rd, sent, begun, closed, cl>>

\* conn.Write takes the write lock of the descriptor: concurrent Write calls
\* on one net.Conn wait for each other.
FdLock(w) ==
    /\ wr[w].pc = "wait"
    /\ fdmu = 0
    /\ fdmu' = w
    /\ wr' = [wr EXCEPT ![w].pc = "write"]
    /\ UNCHANGED <<exceptWire, stream, rd, sent, begun, closed, cl>>

\* The sizes of the next write(2) of a buffer: all of it, or a short write.
Chunks(buf) == {Len(buf)} \cup (IF Len(buf) > 3 THEN {3} ELSE {})

\* One write(2) inside conn.Write: k bytes go out; the lock is released when
\* the buffer is empty.  With the client gone the write fails and conn.Write
\* returns the error, which ends the caller without a retry.
FdWrite(w, k) ==
    /\ wr[w].pc = "write"
    /\ k \in Chunks(wr[w].buf)
    /\ IF cl.pc = "exited"
       THEN /\ wr' = [wr EXCEPT ![w].pc = "idle", ![w].buf = <<>>]
            /\ fdmu' = 0
            /\ UNCHANGED <<stream, sent>>
       ELSE /\ stream' = stream \o SubSeq(wr[w].buf, 1, k)
            /\ sent' = IF wr[w].first THEN Append(sent, wr[w].frame) ELSE sent
            /\ wr' = [wr EXCEPT ![w].buf = SubSeq(@, k + 1, Len(@)),
                                ![w].first = FALSE,
                                ![w].pc = IF k = Len(wr[w].buf) THEN "idle" ELSE "write"]
            /\ fdmu' = IF k = Len(wr[w].buf) THEN 0 ELSE fdmu
    /\ UNCHANGED <<exceptWire, rd, begun, closed, cl>>

\* The daemon's end of the connection goes away: closed in good order (the
\* client reads EOF) or torn down (the client's read fails).
ServerClose(how) ==
    /\ closed = "no"
    /\ \A w \in Writers : wr[w].pc = "idle"
    /\ closed' = how
    /\ UNCHANGED <<exceptWire, stream, rd, fdmu, wr, sent, begun, cl>>

\* The client ends by a panic: the Go runtime exits with status 2.
ClientPanic(cause) == [cl EXCEPT !.pc = "exited", !.exit = PanicExit, !.cause = cause]

\* client.Query returns, the command's action returns nil and main ends.
ClientReturn(cause) == [cl EXCEPT !.pc = "exited", !.exit = ReturnExit, !.cause = cause]

\* net.Dial("unix", socket); an error panics.
ClientDial(ok) ==
    /\ cl.pc = "dial"
    /\ cl' = IF ok THEN [cl EXCEPT !.pc = "send"] ELSE ClientPanic("dial")
    /\ UNCHANGED <<exceptWire, stream, rd, fdmu, wr, sent, begun, closed>>

\* conn.Write of the request frame; an error panics.
ClientSend(ok) ==
    /\ cl.pc = "send"
    /\ cl' = IF ok THEN [cl EXCEPT !.pc = "peek"] ELSE ClientPanic("write")
    /\ UNCHANGED <<exceptWire, stream, rd, fdmu, wr, sent, begun, closed>>

\* reader.Peek(5): the header once 5 bytes are there; io.EOF breaks out of
\* the loop, any other error panics.
ClientPeek ==
    /\ cl.pc = "peek"
    /\ LET avail == SubSeq(stream, rd + 1, Len(stream)) IN
         IF Len(avail) >= 5
         THEN cl' = [cl EXCEPT !.code = avail[1], !.length = Uint32(SubSeq(avail, 2, 5)),
                               !.pc = "readfull"]
         ELSE /\ closed # "no"
              /\ cl' = IF closed = "eof" THEN ClientReturn("eof") ELSE ClientPanic("read")
    /\ UNCHANGED <<exceptWire, stream, rd, fdmu, wr, sent, begun, closed>>

\* io.ReadFull of the 5 + length bytes of the frame; an error panics.
ClientReadFull ==
    /\ cl.pc = "readfull"
    /\ LET avail == SubSeq(stream, rd + 1, Len(stream)) IN
         IF Len(avail) >= 5 + cl.length
         THEN /\ rd' = rd + 5 + cl.length
              /\ cl' = [cl EXCEPT !.got = Append(@, [op |-> cl.code,
                                                     payload |-> SubSeq(avail, 6, 5 + cl.length)]),
                                  !.pc = "dispatch"]
         ELSE /\ closed # "no"
              /\ rd' = rd
              /\ cl' = ClientPanic("read")
    /\ UNCHANGED <<exceptWire, stream, fdmu, wr, sent, begun, closed>>

\* Faulty variant of ClientDispatch: QueryDone ends the loop whether or not
\* --async was given.
ClientDispatch_AsyncIgnored ==
    /\ cl.pc = "dispatch"
    /\ LET f == cl.got[Len(cl.got)] IN
         cl' = IF f.op = done THEN ClientReturn("done")
               ELSE IF f.op = empty THEN [cl EXCEPT !.pc = "peek"]
               ELSE IF f.op # 0 /\ f.op # 1 THEN ClientPanic("opcode")
               ELSE IF Len(f.payload) = 0 THEN [cl EXCEPT !.pc = "peek"]
               ELSE IF ~JSONObject(f.payload) THEN ClientPanic("json")
               ELSE [cl EXCEPT !.printed = Append(@, f.payload), !.pc = "peek"]
    /\ UNCHANGED <<exceptWire, stream, rd, fdmu, wr, sent, begun, closed>>

\* The rest of one turn of the read loop, on the frame just read.
ClientDispatch ==
    /\ cl.pc = "dispatch"
    /\ LET f == cl.got[Len(cl.got)] IN
         cl' = IF f.op = done
               THEN IF ~cl.async THEN ClientReturn("done") ELSE [cl EXCEPT !.pc = "peek"]
               ELSE IF f.op = empty THEN [cl EXCEPT !.pc = "peek"]
               ELSE IF f.op # 0 /\ f.op # 1 THEN ClientPanic("opcode")
               ELSE IF Len(f.payload) = 0 THEN [cl EXCEPT !.pc = "peek"]
               ELSE IF ~JSONObject(f.payload) THEN ClientPanic("json")
               ELSE [cl EXCEPT !.printed = Append(@, f.payload), !.pc = "peek"]
    /\ UNCHANGED <<exceptWire, stream, rd, fdmu, wr, sent, begun, closed>>

WireInit ==
    /\ qid = 0
    /\ queries = [c \in CIDs |-> 0]
    /\ queryMutex = 0
    /\ call = [h \in HIDs |-> IdleCall]
    /\ conn = [c \in CIDs |-> <<>>]
    /\ open = [c \in CIDs |-> TRUE]
    /\ started = 0
    /\ crashed = FALSE
    /\ WebsearchAlwaysShow = FALSE
    /\ \E async \in BOOLEAN : WireStart(async)
    /\ ProvidersStart

WireNext ==
    \/ \E w \in Writers, f \in HandlerFrames : HandlerWrite(w, f)
    \/ \E w \in Writers, format \in UpdateFormats, item \in UpdateItems : UpdateItemCall(w, format, item)
    \/ \E w \in Writers : FdLock(w)
    \/ \E w \in Writers, k \in 1..8 : FdWrite(w, k)
    \/ \E how \in {"eof", "reset"} : ServerClose(how)
    \/ \E ok \in BOOLEAN : ClientDial(ok)
    \/ \E ok \in BOOLEAN : ClientSend(ok)
    \/ ClientPeek
    \/ ClientReadFull
    \/ ClientDispatch

WireSpec == WireInit /\ [][WireNext]_vars

\* ------------------------------------------------------ reading the frames
\* The frames call h has written, in the order they went onto its connection.
FramesBy(h) ==
    IF call[h].pc = "idle" THEN <<>>
    ELSE SelectSeq(conn[call[h].cid], LAMBDA f : f.by = h)

\* The QueryItem frames of call h, in wire order.
ItemsBy(h) == SelectSeq(FramesBy(h), LAMBDA f : f.op = QueryItem)

\* How many frames with opcode op call h has written.
Count(h, op) == Len(SelectSeq(FramesBy(h), LAMBDA f : f.op = op))

\* The frames Handle itself has written for call h (status and QueryItem
\* frames), without the async updates of its providers.
HandleFramesBy(h) == SelectSeq(FramesBy(h), LAMBDA f : f.op # QueryAsyncItem)

\* The items carried by a sequence of frames.
RECURSIVE ItemsOf(_)
ItemsOf(fs) == IF fs = <<>> THEN <<>> ELSE <<fs[1].payload[1].msg.Item>> \o ItemsOf(Tail(fs))

\* Call h ran to its last statement with its client connected throughout.
Served(h) == call[h].pc = "end" /\ open[call[h].cid]

\* Call h has read its qid and is past the decoding.
Loaded(h) == call[h].pc \notin {"idle", "add", "load"}

\* ----------------------------------------------------------------- claims

\* C1 (as claimed): once the request of a later query on the same connection
\* has been consumed, i.e. its Handle call has been started, no further
\* QueryItem frame of the earlier query is written to that connection.
C1_NoOldItemAfterNewRequest ==
    [][\A h1, h2 \in HIDs :
         (h1 < h2 /\ call[h2].pc # "idle" /\ call[h1].cid = call[h2].cid)
            => ItemsBy(h1)' = ItemsBy(h1)]_vars


C3_NoFrameAfterCancel ==
    [][\A h \in HIDs : call[h].ctxDone => FramesBy(h)' = FramesBy(h)]_vars

\* The item carried by a QueryItem frame.
ItemOf(f) == f.payload[1].msg.Item

\* C4: the QueryItem frames of a query are in non-increasing score order, and
\* items of equal score are in non-decreasing order of their lower-cased text.
C4_ItemsSorted ==
    \A h \in HIDs :
        \A k \in 1..(Len(ItemsBy(h)) - 1) :
            LET a == ItemOf(ItemsBy(h)[k])
                b == ItemOf(ItemsBy(h)[k + 1])
            IN /\ a.Score >= b.Score
               /\ a.Score = b.Score => Compare(ToLower(a.Text), ToLower(b.Text)) <= 0

\* C4 witness: a query has emitted three items, the first with a higher score
\* than the second, the last two tied on score with texts whose byte order is
\* the reverse of their lower-cased order.
C4_Witness ==
    \E h \in HIDs :
        /\ Len(ItemsBy(h)) = 3
        /\ ItemOf(ItemsBy(h)[1]).Score > ItemOf(ItemsBy(h)[2]).Score
        /\ ItemOf(ItemsBy(h)[2]).Score = ItemOf(ItemsBy(h)[3]).Score
        /\ Compare(ItemOf(ItemsBy(h)[2]).Text, ItemOf(ItemsBy(h)[3]).Text) > 0

\* C5: among the frames of one Handle call, QueryDone is the last one: no
\* QueryItem and no QueryNoResults follows it, and QueryNoResults, when
\* written, comes before it.
C5_QueryDoneLast ==
    \A h \in HIDs :
        \A k \in 1..Len(FramesBy(h)) :
            /\ FramesBy(h)[k].op = QueryDone => k = Len(FramesBy(h))
            /\ FramesBy(h)[k].op = QueryNoResults
                  => \A j \in 1..(k - 1) : FramesBy(h)[j].op # QueryDone

\* C5 witness: one call has ended its stream with QueryNoResults, QueryDone
\* and another with items followed by QueryDone.
C5_Witness ==
    \E h1, h2 \in HIDs :
        /\ Len(FramesBy(h1)) = 2
        /\ FramesBy(h1)[1].op = QueryNoResults /\ FramesBy(h1)[2].op = QueryDone
        /\ Len(ItemsBy(h2)) >= 2
        /\ FramesBy(h2)[Len(FramesBy(h2))].op = QueryDone

\* C6 (as claimed): a request whose payload cannot be decoded is still
\* answered with a QueryDone frame on the open connection.
C6_DecodeFailureSendsQueryDone ==
    \A h \in HIDs :
        (call[h].pc = "decodeerr" /\ open[call[h].cid]) => Count(h, QueryDone) = 1

\* C7 (as claimed): a Handle call that has exited has cleared queries[cid] if
\* the slot held its own cancel handle, so no exited call still owns a slot.
C7_OwnSlotClearedOnExit ==
    \A h \in HIDs : call[h].pc \in Returned => queries[call[h].cid] # h

\* The positions between queryMutex.Lock() and queryMutex.Unlock().
InSwap == {"cancel", "install", "unlock"}

\* C8: the invoke-then-install pair runs under queryMutex: a call inside it
\* holds the mutex, the slot still holds the handle the call read when it
\* installs its own, the stored handle has been invoked by then, and provider
\* tasks exist only once the predecessor is cancelled and the slot has moved
\* on from it.
C8_CancelThenInstallUnderMutex ==
    \A h \in HIDs :
        /\ call[h].pc \in InSwap => queryMutex = h
        /\ call[h].pc = "install" => queries[call[h].cid] = call[h].val
        /\ (call[h].pc \in {"install", "unlock", "launch", "wait"} /\ call[h].val # 0)
              => call[call[h].val].ctxDone
        /\ call[h].tasks # <<>>
              => /\ queries[call[h].cid] \notin {0, call[h].val}
                 /\ call[h].val # 0 => call[call[h].val].ctxDone

\* C8 witness: a call that found a predecessor's handle stored, invoked it and
\* installed its own has provider tasks running.
C8_Witness ==
    \E h \in HIDs :
        /\ call[h].pc = "wait" /\ call[h].pending # {}
        /\ call[h].val # 0 /\ call[call[h].val].ctxDone
        /\ queries[call[h].cid] = h

\* C9 (as claimed): of two queries, the one whose Handle started later (whose
\* qid.Add came later) carries the strictly larger qid.
C9_QidsStrictlyIncrease ==
    \A h1, h2 \in HIDs :
        (Loaded(h1) /\ Loaded(h2) /\ call[h1].added < call[h2].added)
            => call[h1].qqid < call[h2].qqid

\* C10: every QueryItem frame of a query carries the qid its Handle call read
\* at its start and the query string of the request as the client sent it.
C10_SameQidOriginalQuery ==
    \A h \in HIDs :
        \A k \in 1..Len(ItemsBy(h)) :
            LET m == ItemsBy(h)[k].payload[1].msg
            IN /\ m.Qid = call[h].qqid
               /\ m.Query = call[h].data.req.Query

\* C10 witness: a query with a menus:<menu> provider, whose task was handed
\* the rewritten query, has emitted two items while the counter has moved on.
C10_Witness ==
    \E h \in HIDs :
        /\ Len(ItemsBy(h)) >= 2
        /\ \E n \in 1..Len(call[h].tasks) : call[h].tasks[n].text # call[h].req.Query
        /\ qid # call[h].qqid

\* C11 (as claimed): a provider name "menus:<menu>" is dispatched to the
\* provider "menus" with the query "<menu>:<original query>", <menu> being
\* the whole text after "menus:"; every other provider name gets the original
\* query unchanged.
C11_MenusQueryIsWholeMenuName ==
    \A h \in HIDs : \A n \in DOMAIN call[h].tasks :
        LET name == call[h].req.Providers[n]
            menu == SubSeq(name, Len(sMenusColon) + 1, Len(name))
        IN IF HasPrefix(name, sMenusColon)
           THEN call[h].tasks[n] = [v |-> sMenus, text |-> menu \o <<Colon>> \o call[h].req.Query]
           ELSE call[h].tasks[n] = [v |-> name, text |-> call[h].req.Query]

\* The opcodes of a sequence of frames.
Ops(fs) == [k \in 1..Len(fs) |-> fs[k].op]

\* The elements of a sequence.
Range(s) == {s[k] : k \in 1..Len(s)}

\* The items the registered provider behind task n of call h returns.
ResultsOf(h, n) ==
    IF call[h].tasks[n].v \in Providers
    THEN ProviderQuery(call[h].tasks[n].v, call[h].tasks[n].text,
                       Len(call[h].req.Providers) = 1, call[h].req.Exactsearch, call[h].format)
    ELSE <<>>

\* Some provider name of call h is not registered.
HasUnknown(h) == \E n \in DOMAIN call[h].tasks : call[h].tasks[n].v \notin Providers

\* C12: a provider name that is not registered is skipped without error: the
\* items of the other providers are still merged and, when neither the cap
\* nor the websearch suppression applies, all emitted; a served request
\* whose only providers are unknown is answered with exactly QueryNoResults
\* then QueryDone.
C12_UnknownProviderSkipped ==
    \A h \in HIDs :
        (Served(h) /\ HasUnknown(h)) =>
            /\ \A n \in DOMAIN call[h].tasks : Range(ResultsOf(h, n)) \subseteq Range(call[h].sorted)
            /\ (Len(call[h].sorted) <= call[h].req.Maxresults /\ ~call[h].hideWebsearch)
                  => ItemsOf(ItemsBy(h)) = call[h].sorted
            /\ (\A n \in DOMAIN call[h].tasks : call[h].tasks[n].v \notin Providers)
                  => Ops(HandleFramesBy(h)) = <<QueryNoResults, QueryDone>>

\* A served request naming an unknown and a registered provider has emitted
\* the two items of the registered one.
C12_Witness ==
    \E h \in HIDs :
        /\ Served(h)
        /\ call[h].req.Providers = <<sNope, sFiles>>
        /\ Len(ItemsBy(h)) = 2

\* a is a subsequence of b.
RECURSIVE IsSubseq(_, _)
IsSubseq(a, b) ==
    IF a = <<>> THEN TRUE
    ELSE IF b = <<>> THEN FALSE
    ELSE IF a[1] = b[1] THEN IsSubseq(Tail(a), Tail(b))
    ELSE IsSubseq(a, Tail(b))

\* The first n elements of s, or all of s when it is shorter.
FirstN(s, n) == SubSeq(s, 1, IF Len(s) < n THEN Len(s) ELSE n)

\* Call h is past the barrier without having been cancelled there.
PastBarrier(h) == call[h].pc \in {"noresults", "loop", "write", "done", "end", "writeerr"}

\* Every item of call h that reaches the wire can be marshalled.
Marshallable(h) ==
    \A k \in 1..Len(call[h].entries) :
        ~Marshal(call[h].format, Response(h, call[h].entries[k])).err

\* C13: for a request with maxresults >= 0 that is not cancelled, the items
\* of its QueryItem frames are taken, in order, from the first maxresults
\* items of the sorted merged sequence, so at most maxresults frames are
\* written; the cap drops nothing when the merged sequence has at most
\* maxresults items; a served request without suppression emits exactly
\* those first maxresults items.
C13_CapKeepsFirstMaxresults ==
    \A h \in HIDs :
        (PastBarrier(h) /\ call[h].req.Maxresults >= 0) =>
            /\ Len(ItemsBy(h)) <= call[h].req.Maxresults
            /\ IsSubseq(ItemsOf(ItemsBy(h)), FirstN(call[h].sorted, call[h].req.Maxresults))
            /\ Len(call[h].sorted) <= call[h].req.Maxresults => call[h].entries = call[h].sorted
            /\ (Served(h) /\ ~call[h].hideWebsearch /\ Marshallable(h))
                  => ItemsOf(ItemsBy(h)) = FirstN(call[h].sorted, call[h].req.Maxresults)

\* A served request whose three merged items were capped to two has written
\* two QueryItem frames.
C13_Witness ==
    \E h \in HIDs :
        /\ Served(h)
        /\ Len(call[h].sorted) = 3
        /\ call[h].req.Maxresults = 2
        /\ Len(ItemsBy(h)) = 2

\* C14 (as claimed): hide_websearch is true exactly when the request names
\* more than one provider, the number of items merged from all its provider
\* tasks exceeds MaxGlobalItemsToDisplayWebsearch, and WebsearchAlwaysShow is
\* false.
C14_HideByMergedCount ==
    \A h \in HIDs :
        PastBarrier(h) =>
            call[h].hideWebsearch =
                (/\ Len(call[h].req.Providers) > 1
                 /\ Len(call[h].sorted) > MaxGlobalItemsToDisplayWebsearch
                 /\ ~WebsearchAlwaysShow)

\* The websearch items of call h that the cap has left and whose text is not
\* the prefix hint.
PlainWebsearch(h) ==
    {v \in Range(call[h].entries) : v.Provider = sWebsearch /\ v.Text # call[h].wsprefix}

\* C14 (amended): hide_websearch is true exactly when the request names more
\* than one provider, the number of items left after the maxresults cap
\* exceeds MaxGlobalItemsToDisplayWebsearch, and WebsearchAlwaysShow is
\* false; a served request then emits none of its plain websearch items, and
\* all of them otherwise.
C14_HideByCappedCount ==
    \A h \in HIDs :
        PastBarrier(h) =>
            LET hide == /\ Len(call[h].req.Providers) > 1
                        /\ Len(call[h].entries) > MaxGlobalItemsToDisplayWebsearch
                        /\ ~WebsearchAlwaysShow
            IN /\ call[h].hideWebsearch = hide
               /\ (Served(h) /\ hide) => PlainWebsearch(h) \cap Range(ItemsOf(ItemsBy(h))) = {}
               /\ (Served(h) /\ ~hide /\ Marshallable(h))
                     => PlainWebsearch(h) \subseteq Range(ItemsOf(ItemsBy(h)))

\* A served two-provider request with two merged items capped to one, the
\* websearch item, has emitted it although always-show is off.
C14_Witness ==
    \E h \in HIDs :
        /\ Served(h)
        /\ ~WebsearchAlwaysShow
        /\ Len(call[h].req.Providers) = 2
        /\ Len(call[h].sorted) = 2
        /\ call[h].entries = <<Item(sWebsearch, sGoogle, 1)>>
        /\ ItemsOf(ItemsBy(h)) = <<Item(sWebsearch, sGoogle, 1)>>

\* The engine names of the registered prefixes query q starts with.
Hints(q) == {WebsearchPrefixes[k] : k \in {x \in DOMAIN WebsearchPrefixes : HasPrefix(q, x)}}

\* C15: while suppression applies to a request, every websearch item written
\* in a QueryItem frame has as text the prefix hint, the engine name of a
\* registered prefix the query starts with; and a served request has emitted
\* the websearch items whose text is that hint.
C15_OnlyHintSurvivesSuppression ==
    \A h \in HIDs :
        (PastBarrier(h) /\ call[h].hideWebsearch) =>
            /\ \A v \in Range(ItemsOf(ItemsBy(h))) :
                   v.Provider = sWebsearch => v.Text \in Hints(call[h].req.Query)
            /\ (Served(h) /\ Marshallable(h)) =>
                   \A v \in Range(call[h].entries) :
                       (v.Provider = sWebsearch /\ v.Text \in Hints(call[h].req.Query))
                           => v \in Range(ItemsOf(ItemsBy(h)))

\* A served request under suppression whose query starts with the prefix
\* "g " has emitted the item of the engine registered for it.
C15_Witness ==
    \E h \in HIDs :
        /\ Served(h)
        /\ call[h].hideWebsearch
        /\ call[h].req.Query = sGSpaceA
        /\ Item(sWebsearch, sGoogle, 1) \in Range(ItemsOf(ItemsBy(h)))

\* Handle of call h has come to its end past the barrier, by a return or by
\* a panic of its own, without having been cancelled.
Ended(h) == call[h].pc \in {"end", "writeerr", "panic"}

\* C16 (as claimed): a query that is not cancelled, with its client
\* connected, writes exactly QueryNoResults then QueryDone and no QueryItem
\* when its provider tasks returned no item in total, and otherwise QueryItem
\* frames followed by QueryDone, without QueryNoResults.
C16_EmptyOrItemsThenDone ==
    \A h \in HIDs :
        (Ended(h) /\ open[call[h].cid]) =>
            IF call[h].sorted = <<>>
            THEN Ops(HandleFramesBy(h)) = <<QueryNoResults, QueryDone>>
            ELSE Ops(HandleFramesBy(h)) = [k \in 1..Len(ItemsBy(h)) |-> QueryItem] \o <<QueryDone>>

C18_EmittedProviderRegistered ==
    \A h \in HIDs : \A v \in Range(ItemsOf(ItemsBy(h))) :
        v.Provider # sEmpty /\ v.Provider \in Providers

\* C19 (as claimed): a panic of one provider's Query stays inside its task:
\* the daemon lives on, so that the call still merges the items of the other
\* providers, ends with QueryDone and later requests are served.
C19_ProviderPanicIsolated ==
    \A h \in HIDs : call[h].panicked # {} => ~crashed

\* C20: when the write of a QueryItem frame fails, Handle returns at once: it
\* goes from the write to its return without any further step of the loop,
\* and from then on it writes no further QueryItem frame and no QueryDone.
C20_WriteFailureAborts ==
    /\ [](\A h \in HIDs : call[h].pc = "writeerr" => Count(h, QueryDone) = 0)
    /\ [][\A h \in HIDs :
            /\ (call[h].pc = "write" /\ ~open[call[h].cid])
                  => (call'[h].pc \in {"write", "writeerr"}
                      /\ HandleFramesBy(h)' = HandleFramesBy(h))
            /\ call[h].pc = "writeerr"
                  => (call'[h].pc = "writeerr" /\ HandleFramesBy(h)' = HandleFramesBy(h))]_vars

\* A call has returned on a failed write after one QueryItem frame had gone
\* out, with the failed item and the rest of its entries unsent.
C20_Witness ==
    \E h \in HIDs :
        /\ call[h].pc = "writeerr"
        /\ Len(ItemsBy(h)) = 1
        /\ Len(call[h].entries) >= 2

\* Some provider of call h does not return from its Query, and the other
\* providers have returned items.
Stalled(h) ==
    /\ call[h].pc = "wait"
    /\ call[h].pending # {}
    /\ \A n \in call[h].pending :
           call[h].tasks[n].v \in Providers
               /\ ProviderHangs(call[h].tasks[n].v, call[h].tasks[n].text)
    /\ call[h].entries # <<>>

\* C21 (as claimed): when one provider's Query never returns while the other
\* providers of the request have returned, the items of the others are still
\* eventually emitted (unless the client goes away).
C21_OthersEventuallyEmitted ==
    \A h \in HIDs :
        Stalled(h) ~> (Len(ItemsBy(h)) > 0 \/ (call[h].cid \in CIDs /\ ~open[call[h].cid]))

\* a is a prefix of b.
IsPrefix(a, b) == Len(a) <= Len(b) /\ SubSeq(b, 1, Len(a)) = a

\* The bytes of a sequence of frames, one after the other.
RECURSIVE Flatten(_)
Flatten(fs) == IF fs = <<>> THEN <<>> ELSE FrameBytes(fs[1].op, fs[1].payload) \o Flatten(Tail(fs))

RECURSIVE MergeInOrder(_, _)
MergeInOrder(h, n) ==
    IF n > Len(call[h].tasks) THEN <<>> ELSE ResultsOf(h, n) \o MergeInOrder(h, n + 1)

\* C23 (as claimed): the emission order does not depend on the order in which
\* the provider tasks finish.  The run in which they finish in the order of
\* the provider list is one of the runs, so every served run of a request
\* without cap and suppression must write the items in the order that run
\* does, ties on score and lower-cased text included.
C23_OrderIndependentOfTaskOrder ==
    \A h \in HIDs :
        (/\ Served(h)
         /\ Marshallable(h)
         /\ ~call[h].hideWebsearch
         /\ Len(call[h].sorted) <= call[h].req.Maxresults)
            => ItemsOf(ItemsBy(h)) = SortFunc(MergeInOrder(h, 1))

\* C24 (as claimed): the frame UpdateItem hands to conn.Write is opcode
\* QueryAsyncItem, the big-endian length of the payload and a payload that is
\* the envelope encoded in the given format: a JSON object for format 1, a
\* protobuf message for format 0, and in no case nothing at all.
C24_UpdateItemWritesEnvelope ==
    \A w \in Writers :
        (wr[w].kind = "update" /\ wr[w].pc = "wait") =>
            LET payload == SubSeq(wr[w].buf, 6, Len(wr[w].buf)) IN
              /\ wr[w].buf[1] = QueryAsyncItem
              /\ Uint32(SubSeq(wr[w].buf, 2, 5)) = Len(payload)
              /\ payload # <<>>
              /\ wr[w].format = 1 => JSONObject(payload)
              /\ wr[w].format = 0 => payload[1] = 10

\* The client's frame reader as a function of the bytes: peek the 5-byte
\* header, consume 5 + length bytes, until fewer bytes than that are left.
RECURSIVE Unframe(_)
Unframe(bytes) ==
    IF Len(bytes) < 5 THEN <<>>
    ELSE LET length == Uint32(SubSeq(bytes, 2, 5)) IN
           IF Len(bytes) < 5 + length THEN <<>>
           ELSE <<[op |-> bytes[1], payload |-> SubSeq(bytes, 6, 5 + length)]>>
                    \o Unframe(SubSeq(bytes, 6 + length, Len(bytes)))

\* C25: unframing what the server framed is the identity: the frames the
\* client has read are the frames written, opcode and payload unchanged and
\* in order; the client has consumed exactly their bytes; and once every
\* write has ended, splitting the byte stream gives back exactly the frames
\* written.
C25_UnframeIsInverse ==
    /\ IsPrefix(cl.got, sent)
    /\ rd = Len(Flatten(cl.got))
    /\ (cl.pc # "exited" /\ \A w \in Writers : wr[w].pc # "write") => Unframe(stream) = sent

\* The client has read two frames, one of them with a payload.
C25_Witness ==
    /\ Len(cl.got) = 2
    /\ \E k \in 1..2 : cl.got[k].payload # <<>>

\* The frames of the client whose turn of the loop is over.
Handled == IF cl.pc = "dispatch" THEN SubSeq(cl.got, 1, Len(cl.got) - 1) ELSE cl.got

\* The payloads the read loop prints for a sequence of frames: those of the
\* data frames (opcodes 0 and 1) that hold a JSON envelope.
RECURSIVE Printable(_)
Printable(fs) ==
    IF fs = <<>> THEN <<>>
    ELSE (IF fs[1].op \in {0, 1} /\ JSONObject(fs[1].payload) THEN <<fs[1].payload>> ELSE <<>>)
             \o Printable(Tail(fs))

\* C26: the read loop of the client.  Without --async no frame is read after
\* a QueryDone and the loop ends on it; with --async QueryDone does not end
\* the loop, which returns only when the server has closed the connection,
\* and the data frames read after QueryDone are printed like those before;
\* QueryNoResults does not end the loop; a frame with another opcode than 0,
\* 1, QueryNoResults and QueryDone is not printed and ends the client with
\* an error.
C26_ClientReadLoop ==
    /\ cl.printed = Printable(Handled)
    /\ ~cl.async => \A k \in 1..Len(Handled) :
                        cl.got[k].op = done => (k = Len(cl.got) /\ cl.cause = "done")
    /\ cl.async => cl.cause # "done"
    /\ (cl.async /\ cl.exit = ReturnExit) => (cl.cause = "eof" /\ closed = "eof")
    /\ (cl.pc = "exited" /\ Len(cl.got) > 0 /\ cl.got[Len(cl.got)].op = empty)
           => (cl.cause \in {"eof", "read"} /\ closed # "no")
    /\ \A k \in 1..Len(Handled) :
           cl.got[k].op \notin {0, 1, empty, done}
               => (k = Len(cl.got) /\ cl.exit = PanicExit /\ cl.cause = "opcode")

\* The client was started with --async, has read QueryDone and after it an
\* item, which it printed.
C26_Witness ==
    /\ cl.async
    /\ Len(cl.got) = 2
    /\ cl.got[1].op = done
    /\ cl.got[2].op \in {0, 1}
    /\ Len(cl.printed) = 1

\* C27 (as claimed): the query command exits with 0 when the stream was
\* terminated by QueryDone, with 1 on a transport failure (no connection, a
\* failed write or read, the connection closing before QueryDone) and with 2
\* on a frame with an invalid opcode.
C27_ExitCodes ==
    cl.pc = "exited" =>
        /\ cl.cause = "done" => cl.exit = ReturnExit
        /\ cl.cause \in {"dial", "write", "read"} => cl.exit = 1
        /\ (cl.cause = "eof" /\ \A k \in 1..Len(cl.got) : cl.got[k].op # done)
               => cl.exit = 1
        /\ cl.cause = "opcode" => cl.exit = PanicExit

\* ------------------------------------------------- bluetooth.Activate
\* The fourth specification follows one call of bluetooth.Activate for one
\* device: the action is drawn from the provider's actions and one unknown
\* action, the device starts paired or not, connected or not.
ActionDisconnect == "disconnect"
ActionConnect == "connect"
ActionRemove == "remove"
ActionPair == "pair"
ActionTrust == "trust"
ActionUntrust == "untrust"
ActionFind == "find"

Actions ==
    {ActionDisconnect, ActionConnect, ActionRemove, ActionPair, ActionTrust, ActionUntrust,
     ActionFind, "unknown"}

\* The statement after the polling loop for the paired state: the polling
\* loop for the connected state when connect or disconnect is set, else the
\* end of the function.
AfterPaired(b) == IF b.connect \/ b.disconnect THEN "sleepInfo" ELSE "returned"

\* The statement after cmd.CombinedOutput(): the first of the two polling
\* loops whose flags are set, else the end of the function.
AfterRun(b) == IF b.added \/ b.removed THEN "sleepPaired" ELSE AfterPaired(b)

\* The switch on the action: find and an unknown action return at once, the
\* others set their flag and go on to run bluetoothctl.
BtSwitch ==
    /\ bt.pc = "switch"
    /\ bt' = IF bt.action \in {ActionFind, "unknown"}
                THEN [bt EXCEPT !.pc = "returned"]
                ELSE [bt EXCEPT !.pc = "run",
                                !.added = (bt.action = ActionPair),
                                !.removed = (bt.action = ActionRemove),
                                !.connect = (bt.action = ActionConnect),
                                !.disconnect = (bt.action = ActionDisconnect)]
    /\ UNCHANGED exceptBluetooth

\* What a bluetoothctl action that succeeds does to the device.
Effect(b) ==
    CASE b.action = ActionPair -> [b EXCEPT !.paired = TRUE]
      [] b.action = ActionRemove -> [b EXCEPT !.paired = FALSE, !.connected = FALSE]
      [] b.action = ActionConnect -> [b EXCEPT !.connected = TRUE]
      [] b.action = ActionDisconnect -> [b EXCEPT !.connected = FALSE]
      [] OTHER -> b

\* cmd.CombinedOutput(): bluetoothctl runs the action, which succeeds or
\* fails; a failure is logged and the function goes on.
BtRun(ok) ==
    /\ bt.pc = "run"
    /\ bt' = [(IF ok THEN Effect(bt) ELSE bt) EXCEPT !.pc = AfterRun(bt)]
    /\ UNCHANGED exceptBluetooth

\* time.Sleep(1 * time.Second) at the head of either polling loop.
BtSleep ==
    /\ bt.pc \in {"sleepPaired", "sleepInfo"}
    /\ bt' = [bt EXCEPT !.pc = IF bt.pc = "sleepPaired" THEN "pollPaired" ELSE "pollInfo"]
    /\ UNCHANGED exceptBluetooth

\* One round of the first loop: "bluetoothctl devices Paired" lists the
\* device when it is paired and the command works; the loop is left when the
\* device is listed after a pair, or not listed after a remove.
BtPollPaired(fails) ==
    /\ bt.pc = "pollPaired"
    /\ LET ok == bt.paired /\ ~fails
       IN  bt' = [bt EXCEPT !.pc = IF (bt.removed /\ ~ok) \/ (bt.added /\ ok)
                                      THEN AfterPaired(bt)
                                      ELSE "sleepPaired"]
    /\ UNCHANGED exceptBluetooth

\* One round of the second loop: "bluetoothctl info" prints a Connected line
\* when the command works; the loop is left on "yes" after a connect, or on
\* anything else after a disconnect.
BtPollInfo(fails) ==
    /\ bt.pc = "pollInfo"
    /\ LET line == ~fails
           yes == bt.connected
       IN  bt' = [bt EXCEPT !.pc = IF line /\ ((bt.connect /\ yes) \/ (bt.disconnect /\ ~yes))
                                      THEN "returned"
                                      ELSE "sleepInfo"]
    /\ UNCHANGED exceptBluetooth

\* The steps of the Activate call.
ActivateStep == BtSwitch \/ (\E ok \in BOOLEAN : BtRun(ok)) \/ BtSleep
                    \/ (\E fails \in BOOLEAN : BtPollPaired(fails) \/ BtPollInfo(fails))

\* The device changes state for a reason outside the call (the user, the
\* device going out of range) while the call is running.
DeviceChange(what) ==
    /\ bt.pc # "returned"
    /\ bt' = IF what = "paired" THEN [bt EXCEPT !.paired = ~bt.paired]
                                ELSE [bt EXCEPT !.connected = ~bt.connected]
    /\ UNCHANGED exceptBluetooth

BluetoothInit ==
    /\ DispatchStart
    /\ GitStart
    /\ \E action \in Actions, paired \in BOOLEAN, connected \in BOOLEAN :
           bt = BtStart(action, paired, connected)
    /\ vsc = VscStart(<<>>, <<>>, 20, 100)
    /\ mw = MwStart

BluetoothNext ==
    \/ BtSwitch
    \/ \E ok \in BOOLEAN : BtRun(ok)
    \/ BtSleep
    \/ \E fails \in BOOLEAN : BtPollPaired(fails)
    \/ \E fails \in BOOLEAN : BtPollInfo(fails)
    \/ \E what \in {"paired", "connected"} : DeviceChange(what)

BluetoothSpec == BluetoothInit /\ [][BluetoothNext]_vars

\* The same call under a fair scheduler: the call takes its next step
\* whenever it has one; the device is under no obligation.
BluetoothLiveSpec == BluetoothInit /\ [][BluetoothNext]_vars /\ WF_vars(ActivateStep)

\* C28: an Activate call for pair, remove, connect or disconnect always
\* returns, whatever bluetoothctl does and whatever state the device is left
\* in.
C28_ActivateReturns ==
    (bt.action \in {ActionPair, ActionRemove, ActionConnect, ActionDisconnect})
        ~> (bt.pc = "returned")

\* ------------------------------------------------ vscodeprojects.Query
\* The fifth specification applies vscodeprojects.Query to a query, a list
\* of recent projects and a configuration.

\* The longest list of recent projects.
MaxProjects == 2

Slash == 47
sQ == <<113>>                                                \* "q"
sAB == <<97, 98>>                                            \* "ab"
sPathAB == <<Slash, 97, Slash, 98>>                          \* "/a/b"
sPathC == <<Slash, 99>>                                      \* "/c"
sPathZ == <<Slash, 122>>                                     \* "/z"

\* The recent projects the lists are made of: one without a label, one
\* whose label says more than its path, one that matches few queries.
Projects ==
    {[Path |-> sPathAB, Label |-> sEmpty], [Path |-> sPathC, Label |-> sAB],
     [Path |-> sPathZ, Label |-> sEmpty]}

\* The score of the most recent project before any fuzzy match.
RecentScore == 1000000000

\* The least score fuzzyBest gives to a match.
FloorScore == 10

\* The positions at which q occurs in v.
Occurrences(q, v) ==
    {k \in 1..(Len(v) - Len(q) + 1) : SubSeq(v, k, k + Len(q) - 1) = q}

\* The least member of a non-empty set of integers.
Least(S) == CHOOSE k \in S : \A l \in S : k <= l

\* common.FuzzyScore: 0 when q does not occur in v, else a score that grows
\* with the length of the match, and the offset of the first match.
FuzzyScore(q, v) ==
    IF Occurrences(q, v) = {}
        THEN [score |-> 0, start |-> 0]
        ELSE [score |-> 30 * Len(q), start |-> Least(Occurrences(q, v)) - 1]

\* filepath.Base of a path without a trailing separator: what follows the
\* last separator.
Base(path) ==
    LET seps == {k \in 1..Len(path) : path[k] = Slash}
    IN  IF seps = {} THEN path
        ELSE SubSeq(path, (CHOOSE k \in seps : \A l \in seps : l <= k) + 1, Len(path))

\* The text and the subtext of the item of a project.
TextOf(e) == IF e.Label = sEmpty THEN Base(e.Path) ELSE e.Label

\* fuzzyBest over the text and the subtext: the first value with the highest
\* score; no match when that score is 0.
fuzzyBest(q, text, sub) ==
    LET t == FuzzyScore(q, text)
        s == FuzzyScore(q, sub)
        scoreRes == IF t.score > 0 THEN (IF s.score > t.score THEN s.score ELSE t.score)
                                   ELSE (IF s.score > 0 THEN s.score ELSE 0)
        startRes == IF t.score > 0 THEN (IF s.score > t.score THEN s.start ELSE t.start)
                                   ELSE (IF s.score > 0 THEN s.start ELSE 0)
        field == IF t.score > 0 /\ ~(s.score > t.score) THEN "text" ELSE "subtext"
    IN  IF scoreRes = 0
            THEN [ok |-> FALSE, score |-> 0, start |-> 0, field |-> "none"]
            ELSE [ok |-> TRUE,
                  score |-> IF scoreRes - startRes > FloorScore THEN scoreRes - startRes
                                                                ELSE FloorScore,
                  start |-> startRes, field |-> field]

\* The item the loop builds for entry i (counted from 0) of the list.
VscItem(v, i) ==
    LET e == v.entries[i + 1]
        f == fuzzyBest(v.query, TextOf(e), e.Path)
    IN  [Identifier |-> i, Text |-> TextOf(e), Subtext |-> e.Path,
         Score |-> IF v.query # sEmpty /\ f.ok THEN f.score ELSE RecentScore - i,
         Fuzzyinfo |-> IF v.query # sEmpty /\ f.ok THEN f.field ELSE "nil"]

\* The loop of Query from entry i on, with the items res kept so far.
RECURSIVE QueryFrom(_, _, _)
QueryFrom(v, i, res) ==
    IF i >= Len(v.entries) THEN res
    ELSE LET item == VscItem(v, i)
         IN  IF v.query = sEmpty \/ item.Score > v.MinScore
                 THEN IF Len(res) + 1 >= v.MaxEntries
                          THEN Append(res, item)
                          ELSE QueryFrom(v, i + 1, Append(res, item))
                 ELSE QueryFrom(v, i + 1, res)

\* refreshIfNeeded(false) after the first load: the entries are read again
\* from the state database when it was modified since the last load or when
\* the last load is 30 seconds old.
Refreshed(v) ==
    IF v.modified \/ v.expired
        THEN [v EXCEPT !.entries = v.db, !.modified = FALSE, !.expired = FALSE]
        ELSE v

\* Query runs and returns res.
VscQuery ==
    /\ vsc.pc = "query"
    /\ vsc' = [Refreshed(vsc) EXCEPT !.pc = "returned",
                                     !.res = QueryFrom(Refreshed(vsc), 0, <<>>)]
    /\ UNCHANGED exceptVscode

\* The lists of at most n recent projects.
ProjectLists(n) == UNION {[1..k -> Projects] : k \in 0..n}

VscodeInit ==
    /\ DispatchStart
    /\ GitStart
    /\ bt = BtStart(ActionFind, FALSE, FALSE)
    /\ \E query \in {sEmpty, sA, sZ, sQ, sAB}, entries \in ProjectLists(MaxProjects),
          minScore \in {20, 60}, maxEntries \in {0, 1, 2, 100} :
           vsc = VscStart(query, entries, minScore, maxEntries)
    /\ mw = MwStart

VscodeNext == VscQuery

VscodeSpec == VscodeInit /\ [][VscodeNext]_vars

\* The first n members of a sequence.
Head_(s, n) == SubSeq(s, 1, IF n < Len(s) THEN (IF n < 0 THEN 0 ELSE n) ELSE Len(s))

\* An entry whose label or path fuzzy-matches the query with a score above
\* min_score.
MatchesAbove(v, e) ==
    /\ FuzzyScore(v.query, TextOf(e)).score # 0 \/ FuzzyScore(v.query, e.Path).score # 0
    /\ fuzzyBest(v.query, TextOf(e), e.Path).score > v.MinScore

\* C29: for a non-empty query Query returns only entries that fuzzy-match it
\* on their label or path with a score above min_score, so never an entry
\* whose fuzzy score is 0 on both; for an empty query it returns the first
\* max_entries entries.
C29_OnlyMatchesReturned ==
    vsc.pc = "returned" =>
        /\ vsc.query # sEmpty =>
               \A k \in 1..Len(vsc.res) :
                   MatchesAbove(vsc, vsc.entries[vsc.res[k].Identifier + 1])
        /\ vsc.query = sEmpty =>
               /\ Len(vsc.res) = Len(Head_(vsc.entries, vsc.MaxEntries))
               /\ \A k \in 1..Len(vsc.res) : vsc.res[k].Identifier = k - 1

\* ---------------------------------------------------------- Menu.watch
\* The sixth specification follows Menu.watch of a menu with
\* refresh_on_change set: the files change, the goroutine reads the events
\* of the watcher, the loop of watch debounces them with a timer.

\* The number of file changes followed.
MaxChanges == 2

\* The operations fsnotify reports for a change of a watched file or folder.
Ops_ == {"Write", "Create", "Remove", "Rename"}

\* A watched file or folder changes: the watcher queues the event.  dirty
\* records that the cached entries are older than the files.
FileChange(op) ==
    /\ mw.changes < MaxChanges
    /\ mw' = [mw EXCEPT !.events = Append(mw.events, op), !.changes = mw.changes + 1,
                        !.dirty = TRUE]
    /\ UNCHANGED exceptMenu

\* The goroutine receives an event: for Remove and Rename it goes on to
\* send on changeChan, for any other operation it returns to its select.
WatcherEvent ==
    /\ mw.gpc = "select"
    /\ mw.events # <<>>
    /\ mw' = [mw EXCEPT !.events = Tail(mw.events),
                        !.gpc = IF Head(mw.events) = "Remove" \/ Head(mw.events) = "Rename"
                                    THEN "send" ELSE "select"]
    /\ UNCHANGED exceptMenu

\* The loop of watch receives from changeChan, which lets the goroutine's
\* send go through: the timer is reset and do is set.
WatchChange ==
    /\ mw.gpc = "send"
    /\ mw' = [mw EXCEPT !.gpc = "select", !.timer = "armed", !.do = TRUE]
    /\ UNCHANGED exceptMenu

\* The 500 ms of the timer pass.
TimerFires ==
    /\ mw.timer = "armed"
    /\ mw' = [mw EXCEPT !.timer = "fired"]
    /\ UNCHANGED exceptMenu

\* The loop of watch receives from timer.C: when do is set it rebuilds the
\* cached entries with CreateLuaEntries and clears do.
WatchTimer ==
    /\ mw.timer = "fired"
    /\ mw' = IF mw.do
                THEN [mw EXCEPT !.timer = "idle", !.do = FALSE, !.rebuilds = mw.rebuilds + 1,
                                !.dirty = FALSE]
                ELSE [mw EXCEPT !.timer = "idle"]
    /\ UNCHANGED exceptMenu

MenuInit ==
    /\ DispatchStart
    /\ GitStart
    /\ bt = BtStart(ActionFind, FALSE, FALSE)
    /\ vsc = VscStart(<<>>, <<>>, 20, 100)
    /\ mw = MwStart

MenuNext ==
    \/ \E op \in Ops_ : FileChange(op)
    \/ WatcherEvent
    \/ WatchChange
    \/ TimerFires
    \/ WatchTimer

MenuSpec == MenuInit /\ [][MenuNext]_vars

\* The same program under a fair scheduler: the goroutine and the loop of
\* watch run when they can and the timer fires; the files are under no
\* obligation to change.
MenuLiveSpec ==
    /\ MenuInit /\ [][MenuNext]_vars
    /\ WF_vars(WatcherEvent) /\ WF_vars(WatchChange \/ WatchTimer) /\ WF_vars(TimerFires)

\* C30: every change of a watched file or folder (write, create, remove or
\* rename) is eventually followed by a rebuild of the cached entries.
C30_ChangeEventuallyRebuilds == mw.dirty ~> ~mw.dirty

\* ------------------------------------------------- the barrier, the table
\* How many times x occurs in the sequence s.
Occ(x, s) == Cardinality({k \in 1..Len(s) : s[k] = x})

\* Call h has not returned from wg.Wait().
BeforeBarrier(h) ==
    call[h].pc \in {"idle", "add", "load", "lock", "cancel", "install", "unlock", "launch", "wait"}

\* C31: the dispatcher emits nothing before the barrier: a call that has not
\* returned from wg.Wait(), or has a task left, has written no frame; and the
\* sequence that is sorted holds exactly the items returned by the tasks that
\* found their provider, each as many times as it was returned.
C31_NothingBeforeBarrierAllMerged ==
    \A h \in HIDs :
        /\ (BeforeBarrier(h) \/ call[h].pending # {}) => HandleFramesBy(h) = <<>>
        /\ (PastBarrier(h) \/ call[h].pc = "panic") =>
               \A x \in Range(call[h].sorted) \cup Range(MergeInOrder(h, 1)) :
                   Occ(x, call[h].sorted) = Occ(x, MergeInOrder(h, 1))

\* A served call with two registered providers that returned three items in
\* total has sorted all three and written frames.
C31_Witness ==
    \E h \in HIDs :
        /\ Served(h)
        /\ Len(call[h].tasks) = 2
        /\ \A n \in 1..2 : call[h].tasks[n].v \in Providers /\ ResultsOf(h, n) # <<>>
        /\ Len(call[h].sorted) = 3
        /\ Len(ItemsBy(h)) >= 2

\* The calls started for decodable requests of connection c, which are the
\* calls that enter the cancel table.
CallsOf(c) ==
    {h \in HIDs : call[h].pc \notin {"idle", "decodeerr"} /\ call[h].cid = c}

\* Call h is past queryMutex.Unlock().
PastSwap(h) == call[h].pc \notin {"idle", "add", "load", "lock", "cancel", "install", "unlock"}

\* The call of the most recently received request among hs.
Latest(hs) == CHOOSE h \in hs : \A g \in hs : g <= h

\* C32 (as claimed): once every handler of a connection has passed the
\* cancel-and-install step, the most recently received request owns
\* queries[cid] and has not been cancelled by another query, and every older
\* query of the connection has its cancel signal set.
C32_LatestOwnsSlot ==
    \A c \in CIDs :
        (CallsOf(c) # {} /\ \A h \in CallsOf(c) : PastSwap(h)) =>
            /\ queries[c] = Latest(CallsOf(c))
            /\ call[Latest(CallsOf(c))].pc # "cancelled"
            /\ \A h \in CallsOf(c) \ {Latest(CallsOf(c))} : call[h].ctxDone

\* C33 (as claimed): Handle does not crash at the cap whatever the value of
\* maxresults, and a call that is not cancelled and keeps its client ends
\* its stream with QueryDone.
C33_NoCrashForAnyMaxresults ==
    \A h \in HIDs :
        /\ call[h].pc # "panic"
        /\ (PastBarrier(h) /\ call[h].pc \in Returned /\ call[h].pc # "writeerr"
              /\ open[call[h].cid])
              => (FramesBy(h) # <<>> /\ HandleFramesBy(h)[Len(HandleFramesBy(h))].op = QueryDone)

\* C34 (as claimed): a query that has written QueryDone and no QueryItem
\* frame has written QueryNoResults before the QueryDone, whatever made it
\* write no item.
C34_DoneWithoutItemsHasNoResults ==
    \A h \in HIDs :
        (Count(h, QueryDone) > 0 /\ ItemsBy(h) = <<>>)
            => Ops(HandleFramesBy(h)) = <<QueryNoResults, QueryDone>>

\* ------------------------------ vscodeprojects: Query, reload, Activate
\* The seventh specification follows one item from the Query that returned
\* it to the Activate that opens it, while VS Code rewrites its list of
\* recent projects and later Query calls reload it.

\* VS Code writes its state database: the list of recent projects becomes
\* another one.
DbChange(list) ==
    /\ vsc.pc \in {"query", "returned", "picked"}
    /\ list # vsc.db
    /\ vsc' = [vsc EXCEPT !.db = list, !.modified = TRUE]
    /\ UNCHANGED exceptVscode

\* 30 seconds pass since the last load.
Expire ==
    /\ vsc.pc \in {"query", "returned", "picked"}
    /\ ~vsc.expired
    /\ vsc' = [vsc EXCEPT !.expired = TRUE]
    /\ UNCHANGED exceptVscode

\* The user selects item k of the list Query returned: the client keeps its
\* identifier and shows its subtext, the path.
Pick(k) ==
    /\ vsc.pc = "returned"
    /\ k \in 1..Len(vsc.res)
    /\ vsc' = [vsc EXCEPT !.pc = "picked", !.picked = vsc.res[k].Identifier,
                          !.shown = vsc.res[k].Subtext]
    /\ UNCHANGED exceptVscode

\* A later Query call (the next keystroke, another client) while the item is
\* selected.
LaterQuery(query) ==
    /\ vsc.pc = "picked"
    /\ LET v == [Refreshed(vsc) EXCEPT !.query = query]
       IN  vsc' = [v EXCEPT !.res = QueryFrom(v, 0, <<>>)]
    /\ UNCHANGED exceptVscode

\* Activate(identifier, "open"): parseIndex, the bounds check, and the
\* command that opens entries[idx].Path; an index out of range opens
\* nothing.
VscActivate ==
    /\ vsc.pc = "picked"
    /\ LET idx == vsc.picked
       IN  vsc' = IF idx < 0 \/ idx >= Len(vsc.entries)
                     THEN [vsc EXCEPT !.pc = "invalid"]
                     ELSE [vsc EXCEPT !.pc = "opened", !.opened = vsc.entries[idx + 1].Path]
    /\ UNCHANGED exceptVscode

VscodeCacheInit ==
    /\ DispatchStart
    /\ GitStart
    /\ bt = BtStart(ActionFind, FALSE, FALSE)
    /\ \E query \in {sEmpty, sA}, entries \in ProjectLists(MaxProjects) :
           vsc = VscStart(query, entries, 20, 100)
    /\ mw = MwStart

VscodeCacheNext ==
    \/ VscQuery
    \/ \E list \in ProjectLists(MaxProjects) : DbChange(list)
    \/ Expire
    \/ \E k \in 1..MaxProjects : Pick(k)
    \/ \E query \in {sEmpty, sA} : LaterQuery(query)
    \/ VscActivate

VscodeCacheSpec == VscodeCacheInit /\ [][VscodeCacheNext]_vars

\* C35 (as claimed): an Activate with the identifier of a returned item opens
\* the path shown in that item, also when the entries were reloaded between
\* the Query and the Activate.
C35_IdentifierKeepsItsProject ==
    /\ vsc.pc # "invalid"
    /\ vsc.pc = "opened" => vsc.opened = vsc.shown

\* ----------------------------------------------------- bluetooth.Query
\* The eighth specification applies bluetooth.Query with an empty query to
\* the list of devices getDevices() has read.

\* The longest list of devices.
MaxDevices == 2

\* A device with its three flags; its name, address and icon play no part
\* in the lists of the item.
Devices == [Paired : BOOLEAN, Trusted : BOOLEAN, Connected : BOOLEAN]

\* The State and Actions lists Query builds for device v.
DeviceLists(v) ==
    IF v.Paired
    THEN IF v.Trusted
         THEN [s |-> <<"paired">>, a |-> <<ActionRemove, ActionUntrust>>]
         ELSE IF v.Connected
              THEN [s |-> <<"paired">>, a |-> <<ActionRemove, ActionTrust, ActionDisconnect>>]
              ELSE LET s == <<"paired", "disconnected">>
                   IN  [s |-> s, a |-> s \o <<ActionRemove, ActionConnect>>]
    ELSE [s |-> <<"unpaired">>, a |-> <<ActionPair>>]

\* The item of the device at index k (counted from 0).
BtItem(k, v) ==
    [Identifier |-> k, Score |-> 1000 - k, State |-> DeviceLists(v).s,
     Actions |-> DeviceLists(v).a]

\* Query(conn, "", ...): one item per device, all of them returned.
BtQuery ==
    /\ bt.pc = "query"
    /\ bt' = [bt EXCEPT !.pc = "queried",
                        !.entries = [k \in 1..Len(bt.devices) |-> BtItem(k - 1, bt.devices[k])]]
    /\ UNCHANGED exceptBluetooth

BluetoothQueryInit ==
    /\ DispatchStart
    /\ GitStart
    /\ \E ds \in UNION {[1..n -> Devices] : n \in 0..MaxDevices} :
           bt = [BtStart(ActionFind, FALSE, FALSE) EXCEPT !.pc = "query", !.devices = ds]
    /\ vsc = VscStart(<<>>, <<>>, 20, 100)
    /\ mw = MwStart

BluetoothQueryNext == BtQuery

BluetoothQuerySpec == BluetoothQueryInit /\ [][BluetoothQueryNext]_vars

\* C36 (as claimed): whatever the flags of a device, the Actions list of its
\* item is made of action names only and its State list of state tokens
\* only.
C36_ActionsAreActionsStatesAreStates ==
    \A k \in 1..Len(bt.entries) :
        /\ Range(bt.entries[k].Actions) \subseteq
               {ActionRemove, ActionTrust, ActionUntrust, ActionConnect, ActionDisconnect,
                ActionPair}
        /\ Range(bt.entries[k].State) \subseteq {"paired", "unpaired", "disconnected"}

\* ------------------------------------------------- menu entry identifiers
\* The ninth specification gives one entry of one menu to both loaders,
\* createTomlMenu and Menu.CreateLuaEntries, and keeps the identifier each
\* of them builds.
sX == <<120>>                                                \* "x"
sY == <<121>>                                                \* "y"
sS == <<115>>                                                \* "s"
sV == <<118>>                                                \* "v"

\* hex.EncodeToString(md5.Sum(b)): a string that is a function of b and
\* differs for different b; it is written as the digest sign followed by b.
Md5Hex(b) == <<35>> \o b

\* Entry.CreateIdentifier: the digest of menu, text, value and subtext, one
\* after the other.
CreateIdentifier(e) == Md5Hex(e.Menu \o e.Text \o e.Value \o e.Subtext)

\* fmt.Sprintf("menus:%s:%s:%s", submenu, menu, identifier)
SubMenuIdentifier(submenu, menu, identifier) ==
    sMenusColon \o submenu \o <<Colon>> \o menu \o <<Colon>> \o identifier

\* fmt.Sprintf("%s:%s", menu, identifier)
PlainIdentifier(menu, identifier) == menu \o <<Colon>> \o identifier

\* An entry as either loader decodes it: Menu is not read from the file.
Decoded(entry) ==
    [Text |-> entry.Text, Value |-> entry.Value, Subtext |-> entry.Subtext,
     SubMenu |-> entry.SubMenu, Menu |-> sEmpty]

\* createTomlMenu for one entry: v is the copy of the entry the range loop
\* made before m.Entries[k].Menu was set.
TomlIdentifier(m, entry) ==
    LET v == Decoded(entry)
        stored == [v EXCEPT !.Menu = m.Name]
        identifier == CreateIdentifier(stored)
    IN  IF v.SubMenu # sEmpty THEN SubMenuIdentifier(v.SubMenu, v.Menu, identifier)
        ELSE IF m.SubMenu # sEmpty THEN SubMenuIdentifier(m.SubMenu, v.Menu, identifier)
        ELSE PlainIdentifier(m.Name, identifier)

\* Menu.CreateLuaEntries for one entry: the identifier is created before
\* entry.Menu is set.
LuaIdentifier(m, entry) ==
    LET identifier == CreateIdentifier(Decoded(entry))
        e == [Decoded(entry) EXCEPT !.Menu = m.Name]
    IN  IF e.SubMenu # sEmpty THEN SubMenuIdentifier(e.SubMenu, e.Menu, identifier)
        ELSE IF m.SubMenu # sEmpty THEN SubMenuIdentifier(m.SubMenu, e.Menu, identifier)
        ELSE PlainIdentifier(e.Menu, identifier)

\* The menu is loaded from a TOML file.
LoadToml ==
    /\ mw.menu.Name # sEmpty
    /\ mw.toml = <<>>
    /\ mw' = [mw EXCEPT !.toml = TomlIdentifier(mw.menu, mw.entry)]
    /\ UNCHANGED exceptMenu

\* The same menu is loaded from a Lua file.
LoadLua ==
    /\ mw.menu.Name # sEmpty
    /\ mw.lua = <<>>
    /\ mw' = [mw EXCEPT !.lua = LuaIdentifier(mw.menu, mw.entry)]
    /\ UNCHANGED exceptMenu

MenuIdentInit ==
    /\ DispatchStart
    /\ GitStart
    /\ bt = BtStart(ActionFind, FALSE, FALSE)
    /\ vsc = VscStart(<<>>, <<>>, 20, 100)
    /\ \E name \in {sA, sAB}, sub \in {sEmpty, sX}, text \in {sT, sU}, value \in {sEmpty, sV},
          subtext \in {sEmpty, sS}, submenu \in {sEmpty, sY} :
           mw = [MwStart EXCEPT !.menu = [Name |-> name, SubMenu |-> sub],
                                !.entry = [Text |-> text, Value |-> value, Subtext |-> subtext,
                                           SubMenu |-> submenu]]

MenuIdentNext == LoadToml \/ LoadLua

MenuIdentSpec == MenuIdentInit /\ [][MenuIdentNext]_vars

\* The identifier the claim describes: "menus:<submenu>:<menu name>:<hash>"
\* with the submenu of the entry or else of the menu, otherwise
\* "<menu name>:<hash>", the hash taken over menu, text, value and subtext.
ClaimedIdentifier(m, entry) ==
    LET hash == Md5Hex(m.Name \o entry.Text \o entry.Value \o entry.Subtext)
    IN  IF entry.SubMenu # sEmpty THEN SubMenuIdentifier(entry.SubMenu, m.Name, hash)
        ELSE IF m.SubMenu # sEmpty THEN SubMenuIdentifier(m.SubMenu, m.Name, hash)
        ELSE PlainIdentifier(m.Name, hash)

\* C37 (as claimed): both loaders give an entry the identifier of the shape
\* described, with the owning menu's name and the hash over the same fields,
\* so the same entry of the same menu gets the same identifier from both.
C37_SameIdentifierFromBothLoaders ==
    /\ mw.toml # <<>> => mw.toml = ClaimedIdentifier(mw.menu, mw.entry)
    /\ mw.lua # <<>> => mw.lua = ClaimedIdentifier(mw.menu, mw.entry)
    /\ (mw.toml # <<>> /\ mw.lua # <<>>) => mw.toml = mw.lua

\* ----------------------------------------------------- git helpers: GitPush
\* The goroutine of init() owns the work map, keyed by provider and file
\* printed one after the other, the timer of 5 s and the flag do. GitPush
\* hands it one PushData over the unbuffered pushChan, holding gitMu.
MaxPushes == 2

sBC == <<98, 99>>                                            \* "bc"
PushProviders == {sA, sAB}
PushFiles == {sC, sBC}

\* fmt.Sprintf("%s%s", data.provider, data.file)
PushKey(provider, file) == provider \o file

\* work[key] = data
Put(work, data) == {w \in work : w.key # data.key} \cup {data}

\* The orders in which range visits the entries of a map.
Orders(S) == {q \in [1..Cardinality(S) -> S] : Range(q) = S}

\* GitPush(provider, file, w, r): takes gitMu and sends on pushChan; the
\* goroutine receives at its select, stores the data under its key, resets
\* the timer to 5 s (a fire not yet received is dropped) and sets do.
GitPush(provider, file) ==
    /\ pusher.calls < MaxPushes
    /\ setups.gitMu = 0
    /\ pusher' = [pusher EXCEPT
           !.work = Put(@, [key |-> PushKey(provider, file), provider |-> provider, file |-> file]),
           !.timer = "armed",
           !.do = TRUE,
           !.calls = @ + 1,
           !.submitted = @ \cup {<<provider, file>>}]
    /\ UNCHANGED <<exceptGit, setups>>

\* 5 s have passed since the timer was started or last reset.
PushTimer ==
    /\ pusher.timer = "armed"
    /\ pusher' = [pusher EXCEPT !.timer = "fired"]
    /\ UNCHANGED <<exceptGit, setups>>

\* case <-timer.C: when do is set, every entry of work is added, committed
\* and pushed; an entry whose operations succeed is deleted, one with a
\* failing operation is skipped; do is cleared. The timer is not started again.
Flush ==
    /\ pusher.timer = "fired"
    /\ LET pushedNow == IF pusher.do THEN {w \in pusher.work : w.provider \notin pusher.down} ELSE {}
       IN  \E q \in Orders(pushedNow) :
               pusher' = [pusher EXCEPT
                   !.timer = "idle",
                   !.do = FALSE,
                   !.work = @ \ pushedNow,
                   !.pushed = @ \o [k \in 1..Len(q) |-> <<q[k].provider, q[k].file>>],
                   !.flushes = IF pusher.do THEN @ + 1 ELSE @,
                   !.failed = @ \/ (pusher.do /\ pushedNow # pusher.work)]
    /\ UNCHANGED <<exceptGit, setups>>

\* The git operations of a provider start to fail (its remote is unreachable).
GitFails(provider) ==
    /\ provider \notin pusher.down
    /\ pusher' = [pusher EXCEPT !.down = @ \cup {provider}]
    /\ UNCHANGED <<exceptGit, setups>>

\* The git operations of a provider succeed again.
GitWorks(provider) ==
    /\ provider \in pusher.down
    /\ pusher' = [pusher EXCEPT !.down = @ \ {provider}]
    /\ UNCHANGED <<exceptGit, setups>>

\* The goroutine at its select after init(), everything else at rest.
PushInit ==
    /\ DispatchStart
    /\ ProvidersStart

PushNext ==
    \/ \E provider \in PushProviders, file \in PushFiles : GitPush(provider, file)
    \/ PushTimer
    \/ Flush
    \/ \E provider \in PushProviders : GitFails(provider)
    \/ \E provider \in PushProviders : GitWorks(provider)

PushSpec == PushInit /\ [][PushNext]_vars

\* No flush is ahead: the timer has run out and do is clear.
Quiescent == pusher.timer = "idle" /\ ~pusher.do

\* C38: every (provider, file) handed to GitPush has been added, committed and
\* pushed once the goroutine has come to rest and no git operation has failed;
\* work is pushed only in a step that takes the fired timer, 5 s after the last
\* GitPush; and a pair is pushed at most once per flush, however many GitPush
\* calls named it.
C38_EverySubmittedPairPushedOnce ==
    /\ [](/\ (Quiescent /\ ~pusher.failed) =>
               \A pf \in pusher.submitted : Occ(pf, pusher.pushed) >= 1
          /\ \A pf \in pusher.submitted : Occ(pf, pusher.pushed) <= pusher.flushes)
    /\ [][pusher'.pushed # pusher.pushed => pusher.timer = "fired"]_vars

\* C39: a pair left in work has a flush ahead of it (the timer is running or
\* has fired, and do is set), so that it is pushed once its operations succeed
\* without a further GitPush.
C39_FailedPairIsRetried ==
    pusher.work # {} => (pusher.do /\ pusher.timer \in {"armed", "fired"})

\* ---------------------------------------------------- git helpers: SetupGit
\* SetupGit(provider, cfg) holds gitMu from its first line to its return. A
\* URL found in setupRepos is reused; otherwise up to 15 attempts are made to
\* clone the repository into, or open it from, the cache folder named after
\* the last element of the URL, to get its worktree, and to pull when it was
\* opened; the first attempt that goes through records the URL.
MaxAttempts == 15

sUrlAN == <<97, Slash, 110>>                                 \* "a/n"
sUrlBN == <<98, Slash, 110>>                                 \* "b/n"
sUrlAM == <<97, Slash, 109>>                                 \* "a/m"
Urls == {sUrlAN, sUrlBN, sUrlAM}
Setups == 1..MaxSetups

\* The errors of w.Pull: none, the two that SetupGit lets pass, and another.
PullErrors == {"", "already up-to-date", "remote repository is empty", "authentication required"}
PullPasses(err) == err \in {"", "already up-to-date", "remote repository is empty"}

\* val, ok := setupRepos[url]
Recorded(url) == {e \in setups.setupRepos : e.url = url}

\* The call is between gitMu.Lock() and the deferred gitMu.Unlock().
InSetup(p) == setups.callers[p].pc \in {"loop", "clone", "worktree", "pull", "set"}

\* A provider calls SetupGit with the URL of its configuration.
SetupGit(p, url) ==
    /\ setups.callers[p].pc = "idle"
    /\ setups' = [setups EXCEPT !.callers[p].pc = "lock", !.callers[p].url = url]
    /\ UNCHANGED <<exceptGit, pusher>>

\* gitMu.Lock() without waiting for the mutex.
SetupLock_NoMutex(p) ==
    /\ setups.callers[p].pc = "lock"
    /\ LET c == setups.callers[p]
           val == Recorded(c.url)
       IN  setups' = [setups EXCEPT
               !.gitMu = p,
               !.callers[p] = IF val = {}
                   THEN [c EXCEPT !.pc = "loop", !.folder = Base(c.url)]
                   ELSE [c EXCEPT !.pc = "set", !.folder = Base(c.url),
                                  !.r = (CHOOSE e \in val : TRUE).r,
                                  !.w = (CHOOSE e \in val : TRUE).w]]
    /\ UNCHANGED <<exceptGit, pusher>>

\* gitMu.Lock(), x := 0, folder := CacheFile(filepath.Base(cfg.URL())) and the
\* lookup of the URL in setupRepos: a recorded URL gives r and w at once.
SetupLock(p) ==
    /\ setups.callers[p].pc = "lock"
    /\ setups.gitMu = 0
    /\ LET c == setups.callers[p]
           val == Recorded(c.url)
       IN  setups' = [setups EXCEPT
               !.gitMu = p,
               !.callers[p] = IF val = {}
                   THEN [c EXCEPT !.pc = "loop", !.folder = Base(c.url)]
                   ELSE [c EXCEPT !.pc = "set", !.folder = Base(c.url),
                                  !.r = (CHOOSE e \in val : TRUE).r,
                                  !.w = (CHOOSE e \in val : TRUE).w]]
    /\ UNCHANGED <<exceptGit, pusher>>

\* for x < 15 { x++; time.Sleep(1 s) ...: the next attempt, or the end of the
\* loop after the last one.
NextAttempt(p) ==
    /\ setups.callers[p].pc = "loop"
    /\ setups' = [setups EXCEPT !.callers[p] =
           IF @.x < MaxAttempts
           THEN [@ EXCEPT !.x = @ + 1, !.made = {}, !.pc = "clone"]
           ELSE [@ EXCEPT !.pc = "set"]]
    /\ UNCHANGED <<exceptGit, pusher>>

\* setupRepos[cfg.URL()] = Repo{w, r}; break
Record(c) == setups.setupRepos \cup {[url |-> c.url, r |-> c.r, w |-> c.w, made |-> c.made]}

\* git.PlainClone into the folder when it does not exist, git.PlainOpen of the
\* folder (and pull = true) when it does; an error ends the attempt.
CloneOrOpen(p, ok) ==
    /\ setups.callers[p].pc = "clone"
    /\ LET c == setups.callers[p]
           exists == c.folder \in setups.folders
       IN  setups' = [setups EXCEPT
               !.redone = @ \/ Recorded(c.url) # {},
               !.folders = IF ok THEN @ \cup {c.folder} ELSE @,
               !.callers[p] =
                   IF ~ok THEN [c EXCEPT !.r = <<>>, !.pc = "loop"]
                   ELSE [c EXCEPT !.r = <<p, c.x>>,
                                  !.pull = @ \/ exists,
                                  !.made = @ \cup {IF exists THEN "open" ELSE "clone"},
                                  !.pc = "worktree"]]
    /\ UNCHANGED <<exceptGit, pusher>>

\* w, err = r.Worktree(); an error ends the attempt; without a pull to make,
\* the URL is recorded and the loop left.
Worktree(p, ok) ==
    /\ setups.callers[p].pc = "worktree"
    /\ LET c == setups.callers[p]
           got == [c EXCEPT !.w = <<p, c.x>>, !.made = @ \cup {"worktree"}]
       IN  setups' = [setups EXCEPT
               !.setupRepos = IF ok /\ ~c.pull THEN Record(got) ELSE @,
               !.callers[p] =
                   IF ~ok THEN [c EXCEPT !.w = <<>>, !.pc = "loop"]
                   ELSE [got EXCEPT !.pc = IF c.pull THEN "pull" ELSE "set"]]
    /\ UNCHANGED <<exceptGit, pusher>>

\* w.Pull from origin; an error other than the two let pass ends the attempt;
\* otherwise the URL is recorded and the loop left.
Pull(p, err) ==
    /\ setups.callers[p].pc = "pull"
    /\ LET c == setups.callers[p]
           got == [c EXCEPT !.made = @ \cup {"pull"}]
       IN  setups' = [setups EXCEPT
               !.redone = @ \/ Recorded(c.url) # {},
               !.setupRepos = IF PullPasses(err) THEN Record(got) ELSE @,
               !.callers[p] =
                   IF PullPasses(err) THEN [got EXCEPT !.pc = "set"]
                   ELSE [c EXCEPT !.pc = "loop"]]
    /\ UNCHANGED <<exceptGit, pusher>>

\* cfg.SetLocation(folder), cfg.SetRepository(r), cfg.SetWorktree(w), and the
\* deferred gitMu.Unlock().
SetupReturn(p) ==
    /\ setups.callers[p].pc = "set"
    /\ LET c == setups.callers[p]
       IN  setups' = [setups EXCEPT
               !.gitMu = 0,
               !.callers[p] = [c EXCEPT !.pc = "done",
                                        !.cfg = [location |-> c.folder, r |-> c.r, w |-> c.w]]]
    /\ UNCHANGED <<exceptGit, pusher>>

\* The helpers at start-up; a cache folder may be left from an earlier run.
SetupInit ==
    /\ DispatchStart
    /\ bt = BtStart(ActionFind, FALSE, FALSE)
    /\ vsc = VscStart(<<>>, <<>>, 20, 100)
    /\ mw = MwStart
    /\ pusher = PusherStart
    /\ \E left \in SUBSET {Base(url) : url \in Urls} :
           setups = [SetupsStart EXCEPT !.folders = left]

SetupNext ==
    \/ \E p \in Setups, url \in Urls : SetupGit(p, url)
    \/ \E p \in Setups : SetupLock(p)
    \/ \E p \in Setups : NextAttempt(p)
    \/ \E p \in Setups, ok \in BOOLEAN : CloneOrOpen(p, ok)
    \/ \E p \in Setups, ok \in BOOLEAN : Worktree(p, ok)
    \/ \E p \in Setups, err \in PullErrors : Pull(p, err)
    \/ \E p \in Setups : SetupReturn(p)

SetupSpec == SetupInit /\ [][SetupNext]_vars

\* C40: a call makes at most 15 attempts and returns with a recorded
\* repository or after the 15th; an entry of setupRepos was made by an attempt
\* whose clone or open, worktree and, after an open, pull all went through, and
\* there is one entry per URL; no call clones, opens or pulls for a URL that is
\* recorded, and a call that found its URL recorded hands out the recorded
\* repository and worktree; at most one call is inside SetupGit at a time.
C40_SetupOncePerUrl ==
    /\ \A p \in Setups :
           LET c == setups.callers[p]
           IN  /\ c.x <= MaxAttempts
               /\ c.pc = "done" =>
                      \/ \E e \in Recorded(c.url) : e.r = c.cfg.r /\ e.w = c.cfg.w
                      \/ c.x = MaxAttempts
               /\ (c.pc = "done" /\ c.x = 0) => Recorded(c.url) # {}
    /\ \A e \in setups.setupRepos :
           /\ "worktree" \in e.made
           /\ "clone" \in e.made \/ {"open", "pull"} \subseteq e.made
           /\ Recorded(e.url) = {e}
    /\ ~setups.redone
    /\ Cardinality({p \in Setups : InSetup(p)}) <= 1
    /\ \A p \in Setups : InSetup(p) => setups.gitMu = p

\* A call that succeeded at its last attempt and a later call for the same
\* URL that made no attempt and got the same repository and worktree.
C40_Witness ==
    \E p, q \in Setups :
        /\ setups.callers[p].pc = "done" /\ setups.callers[q].pc = "done"
        /\ setups.callers[p].url = setups.callers[q].url
        /\ setups.callers[p].x = MaxAttempts /\ setups.callers[q].x = 0
        /\ setups.callers[q].cfg.r = <<p, MaxAttempts>>
        /\ setups.callers[q].cfg = setups.callers[p].cfg

====
